---- MODULE Spec2Model ----
(***************************************************************************)
(* Model of the d5r container dashboard: the container registry            *)
(* (ContainerData), its stateful lists, the sort engine, the log store,    *)
(* the bounded stats windows and the GUI state driven by the input         *)
(* handler.                                                                *)
(*                                                                         *)
(* Conventions                                                             *)
(*   - a Rust String is a sequence of one-character strings;               *)
(*   - Option<T> is a sequence of length <= 1: None == <<>>, Some(x) ==    *)
(*     <<x>>;                                                              *)
(*   - list indices are 0-based as in the code, item k of a Vec v is       *)
(*     v[k + 1];                                                           *)
(*   - a CPU percentage is an integer number of CpuUnits (0.005 %).        *)
(***************************************************************************)
EXTENDS Integers, Sequences, FiniteSets, TLC

VARIABLES
    items,        \* ContainerData.containers.items : Vec<ContainerItem>
    selected,     \* ContainerData.containers.state.selected() : Option<usize>
    sorted_by,    \* ContainerData.sorted_by : Option<(Header, SortedOrder)>
    args,         \* ContainerData.args : CliArgs (color, raw, timestamp)
    stat_calls,   \* history: the (cpu_stat, mem_stat) of the recorded
                  \* update_stats calls, in call order
    log_calls,    \* history: the raw lines of the recorded update_log_by_id
                  \* calls, in call order
    error,          \* AppData.error : Option<AppError>
    nav,            \* GuiState.nav : Vec<NavPanel>
    gui_status,     \* GuiState.status : HashSet<Status>
    delete_container, \* GuiState.delete_container : Option<ContainerId>
    info_box_text,  \* GuiState.info_box_text : Option<String>
    delete_map,     \* GuiState.delete_map : the Yes and No buttons are registered
    mouse_capture,  \* InputHandler.mouse_capture : bool
    info_sleep,     \* InputHandler.info_sleep : the 4000 ms timer is pending
    is_running,     \* the shared AtomicBool
    docker_tx,      \* the DockerMessages sent and not yet received
    app_lock,       \* who holds the Mutex of AppData
    gui_lock,       \* who holds the Mutex of GuiState
    render_pc,      \* where Ui::gui_loop stands
    render_local,   \* the locals of Ui::gui_loop and draw_frame
    input_pc,       \* where InputHandler::start stands
    input_local,    \* the locals of InputHandler::start and button_press
    input_tx,       \* the InputMessages sent and not yet received
    docker_spawned, \* docker_init has spawned DockerData::init
    seconds         \* the countdown of Ui::err_loop

\* AppData.container_data
regVars == <<items, selected, sorted_by>>

\* the histories
histVars == <<stat_calls, log_calls>>

\* AppData.error, GuiState, InputHandler, the run flag, the channel
guiVars ==
    <<error, nav, gui_status, delete_container, info_box_text, delete_map,
      mouse_capture, info_sleep, is_running, docker_tx>>

\* the two mutexes, and the positions and locals of the render loop and of
\* the input handler
taskVars ==
    <<app_lock, gui_lock, render_pc, render_local, input_pc, input_local,
      input_tx, docker_spawned, seconds>>

vars == <<regVars, args, histVars, guiVars, taskVars>>

\* what the operations of the registry leave alone
outside == <<args, histVars, guiVars, taskVars>>

(***************************************************************************)
(* Options                                                                 *)
(***************************************************************************)
None == <<>>
Some(x) == <<x>>
IsSome(o) == o # <<>>
Unwrap(o) == o[1]

(***************************************************************************)
(* Strings                                                                 *)
(***************************************************************************)
\* the lower-case ASCII letters, in byte order
Letters ==
    <<"a", "b", "c", "d", "e", "f", "g", "h", "i", "j", "k", "l", "m",
      "n", "o", "p", "q", "r", "s", "t", "u", "v", "w", "x", "y", "z">>

\* the digits, in byte order
Digits == <<"0", "1", "2", "3", "4", "5", "6", "7", "8", "9">>

\* byte value of a character (space, slash, digits, lower-case letters)
CharCode(c) ==
    IF c = " " THEN 32
    ELSE IF c = "/" THEN 47
    ELSE IF \E i \in 1..10 : Digits[i] = c
         THEN 47 + (CHOOSE i \in 1..10 : Digits[i] = c)
    ELSE 96 + (CHOOSE i \in 1..26 : Letters[i] = c)

\* Ordering of two integers
IntCmp(a, b) == IF a < b THEN "Less" ELSE IF a = b THEN "Equal" ELSE "Greater"

\* the reverse of an Ordering: a.cmp(b) read as b.cmp(a)
Reverse(o) == IF o = "Less" THEN "Greater" ELSE IF o = "Greater" THEN "Less" ELSE o

RECURSIVE StrCmp(_, _)
\* String::cmp : lexicographic by bytes
StrCmp(s, t) ==
    IF s = <<>> /\ t = <<>> THEN "Equal"
    ELSE IF s = <<>> THEN "Less"
    ELSE IF t = <<>> THEN "Greater"
    ELSE IF CharCode(Head(s)) # CharCode(Head(t))
         THEN IntCmp(CharCode(Head(s)), CharCode(Head(t)))
         ELSE StrCmp(Tail(s), Tail(t))

RECURSIVE TrimStart(_)
TrimStart(s) == IF s # <<>> /\ Head(s) = " " THEN TrimStart(Tail(s)) ELSE s

RECURSIVE TrimEnd(_)
TrimEnd(s) ==
    IF s # <<>> /\ s[Len(s)] = " " THEN TrimEnd(SubSeq(s, 1, Len(s) - 1)) ELSE s

\* the closure trim_owned of update_containers
trim_owned(s) == TrimEnd(TrimStart(s))

\* s.starts_with(p)
StartsWith(s, p) == Len(p) <= Len(s) /\ SubSeq(s, 1, Len(p)) = p

RECURSIVE Replace(_, _)
\* str::replace(s, p, "") : every non-overlapping occurrence of p, left to right
Replace(s, p) ==
    IF p = <<>> \/ s = <<>> THEN s
    ELSE IF StartsWith(s, p) THEN Replace(SubSeq(s, Len(p) + 1, Len(s)), p)
    ELSE <<Head(s)>> \o Replace(Tail(s), p)

(***************************************************************************)
(* StatefulList<T> : the four selection moves, on (length, selection)      *)
(***************************************************************************)
StatefulList_end(len, sel) == IF len > 0 THEN Some(len - 1) ELSE sel

StatefulList_start(len, sel) == Some(0)

StatefulList_next(len, sel) ==
    IF len > 0
    THEN IF IsSome(sel)
         THEN IF Unwrap(sel) < len - 1 THEN Some(Unwrap(sel) + 1) ELSE sel
         ELSE Some(0)
    ELSE sel

StatefulList_previous(len, sel) ==
    IF len > 0
    THEN IF IsSome(sel)
         THEN IF Unwrap(sel) = 0 THEN Some(0) ELSE Some(Unwrap(sel) - 1)
         ELSE Some(0)
    ELSE sel

(***************************************************************************)
(* State                                                                   *)
(***************************************************************************)
sDead == <<"d", "e", "a", "d">>
sExited == <<"e", "x", "i", "t", "e", "d">>
sPaused == <<"p", "a", "u", "s", "e", "d">>
sRemoving == <<"r", "e", "m", "o", "v", "i", "n", "g">>
sRestarting == <<"r", "e", "s", "t", "a", "r", "t", "i", "n", "g">>
sRunning == <<"r", "u", "n", "n", "i", "n", "g">>

\* impl From<String> for State
State_from(input) ==
    IF input = sDead THEN "Dead"
    ELSE IF input = sExited THEN "Exited"
    ELSE IF input = sPaused THEN "Paused"
    ELSE IF input = sRemoving THEN "Removing"
    ELSE IF input = sRestarting THEN "Restarting"
    ELSE IF input = sRunning THEN "Running"
    ELSE "Unknown"

\* State::order
State_order(s) ==
    CASE s = "Running" -> 0
      [] s = "Paused" -> 1
      [] s = "Restarting" -> 2
      [] s = "Removing" -> 3
      [] s = "Exited" -> 4
      [] s = "Dead" -> 5
      [] s = "Unknown" -> 6

(***************************************************************************)
(* CpuStats, ByteStats and their orderings                                 *)
(***************************************************************************)
\* the 0.01 of CpuStats::cmp, in CpuUnits of 0.005 %
CpuEps == 2

Abs(x) == IF x < 0 THEN -x ELSE x

\* CpuStats::cmp comparing the values exactly
CpuStats_cmp_exact(a, b) == IntCmp(a, b)

\* impl Ord for CpuStats
CpuStats_cmp(a, b) ==
    IF a > b THEN "Greater"
    ELSE IF Abs(a - b) < CpuEps THEN "Equal"
    ELSE "Less"

\* impl Ord for ByteStats
ByteStats_cmp(a, b) == IntCmp(a, b)

\* VecDeque::back
Back(q) == IF q = <<>> THEN None ELSE Some(q[Len(q)])

\* Option<&CpuStats>::cmp : None is less than every Some
OptCpu_cmp(a, b) ==
    IF a = None /\ b = None THEN "Equal"
    ELSE IF a = None THEN "Less"
    ELSE IF b = None THEN "Greater"
    ELSE CpuStats_cmp(Unwrap(a), Unwrap(b))

\* Option<&ByteStats>::cmp, Option<i64>::cmp : None is less than every Some
OptInt_cmp(a, b) ==
    IF a = None /\ b = None THEN "Equal"
    ELSE IF a = None THEN "Less"
    ELSE IF b = None THEN "Greater"
    ELSE IntCmp(Unwrap(a), Unwrap(b))

(***************************************************************************)
(* Logs                                                                    *)
(***************************************************************************)
RECURSIVE LogsTz_from(_)
\* impl From<&String> for LogsTz : the text up to and including the first
\* space, the whole text when it holds no space
LogsTz_from(value) ==
    IF value = <<>> THEN <<>>
    ELSE IF Head(value) = " " THEN <<" ">>
    ELSE <<Head(value)>> \o LogsTz_from(Tail(value))

\* impl Default for Logs : `end` on the empty list selects nothing
Logs_default ==
    [items |-> <<>>, tz |-> {},
     selected |-> StatefulList_end(0, None)]

\* Logs::insert without the look at the timestamp set
Logs_insert_always(logs, line, tz) ==
    [logs EXCEPT !.tz = @ \cup {tz}, !.items = Append(@, line)]

\* Logs::insert
Logs_insert(logs, line, tz) ==
    IF tz \in logs.tz
    THEN logs
    ELSE [logs EXCEPT !.tz = @ \cup {tz}, !.items = Append(@, line)]

(***************************************************************************)
(* ContainerItem                                                           *)
(* (docker_controls, is_oxker, last_updated and info are left out: no      *)
(* registry operation reads them)                                          *)
(***************************************************************************)
\* ContainerItem::new
ContainerItem_new(created, id, image, name, state, status) ==
    [created |-> created,
     cpu_stats |-> <<>>,
     id |-> id,
     image |-> image,
     logs |-> Logs_default,
     mem_limit |-> 0,
     mem_stats |-> <<>>,
     name |-> name,
     rx |-> 0,
     state |-> state,
     status |-> status,
     tx |-> 0]

(***************************************************************************)
(* Sort engine                                                             *)
(***************************************************************************)
Headers == {"State", "Status", "Cpu", "Memory", "Id", "Name", "Image", "Rx", "Tx"}

\* the comparator closures of sort_containers for SortedOrder::Asc.  The
\* closure for SortedOrder::Desc is the same with both arguments exchanged.
AscCmp(head, a, b) ==
    CASE head = "State" -> IntCmp(State_order(b.state), State_order(a.state))
      [] head = "Status" -> StrCmp(a.status, b.status)
      [] head = "Cpu" -> OptCpu_cmp(Back(a.cpu_stats), Back(b.cpu_stats))
      [] head = "Memory" -> OptInt_cmp(Back(a.mem_stats), Back(b.mem_stats))
      [] head = "Id" -> StrCmp(a.id, b.id)
      [] head = "Image" -> StrCmp(a.image, b.image)
      [] head = "Name" -> StrCmp(a.name, b.name)
      [] head = "Rx" -> ByteStats_cmp(a.rx, b.rx)
      [] head = "Tx" -> ByteStats_cmp(a.tx, b.tx)

\* the comparator sort_containers hands to sort_by under sort state sb
Compare(a, b, sb) ==
    IF sb = None THEN IntCmp(a.created, b.created)
    ELSE IF Unwrap(sb)[2] = "Asc" THEN AscCmp(Unwrap(sb)[1], a, b)
    ELSE AscCmp(Unwrap(sb)[1], b, a)

RECURSIVE InsertTail(_, _, _)
\* one step of the insertion sort behind slice::sort_by (slices of up to 20
\* elements): x moves left past every element it is less than
InsertTail(pre, x, sb) ==
    IF pre # <<>> /\ Compare(x, pre[Len(pre)], sb) = "Less"
    THEN Append(InsertTail(SubSeq(pre, 1, Len(pre) - 1), x, sb), pre[Len(pre)])
    ELSE Append(pre, x)

\* sort_by leaving the slice as it is
SortBy_kept(v, sb) == v

RECURSIVE SortBy(_, _)
\* slice::sort_by : stable
SortBy(v, sb) ==
    IF v = <<>> THEN <<>>
    ELSE InsertTail(SortBy(SubSeq(v, 1, Len(v) - 1), sb), v[Len(v)], sb)

(***************************************************************************)
(* ContainerData : a registry value is [items, selected, sorted_by]        *)
(***************************************************************************)
\* ContainerData::new
ContainerData_new == [items |-> <<>>, selected |-> None, sorted_by |-> None]

\* ContainerData::sort_containers
sort_containers(reg) == [reg EXCEPT !.items = SortBy(reg.items, reg.sorted_by)]

\* ContainerData::get_selected_container
get_selected_container(reg) ==
    IF IsSome(reg.selected) /\ Unwrap(reg.selected) < Len(reg.items)
    THEN Some(reg.items[Unwrap(reg.selected) + 1])
    ELSE None

\* ContainerData::get_selected_container_id
get_selected_container_id(reg) ==
    IF IsSome(get_selected_container(reg))
    THEN Some(Unwrap(get_selected_container(reg)).id)
    ELSE None

\* Iterator::position over the items, for the predicate "has this id"
PositionOfId(its, id) ==
    IF \E k \in 1..Len(its) : its[k].id = id
    THEN Some((CHOOSE k \in 1..Len(its) :
                 its[k].id = id /\ \A j \in 1..(k - 1) : its[j].id # id) - 1)
    ELSE None

\* ContainerData::set_sorted : the selected id is read after the sort, with
\* the selection index still the one from before the call
set_sorted(reg, x) ==
    LET sorted == sort_containers([reg EXCEPT !.sorted_by = x])
        id == get_selected_container_id(sorted)
    IN  [sorted EXCEPT !.selected =
            IF IsSome(id) THEN PositionOfId(sorted.items, Unwrap(id)) ELSE None]

\* ContainerData::reset_sorted
reset_sorted(reg) == set_sorted(reg, None)

\* a set_sort_by_header of two states: a second call on the same header
\* removes the sort
set_sort_by_header_two_state(reg, selected_header) ==
    set_sorted(reg,
        IF IsSome(reg.sorted_by) /\ Unwrap(reg.sorted_by)[1] = selected_header
        THEN None
        ELSE Some(<<selected_header, "Asc">>))

\* ContainerData::set_sort_by_header
set_sort_by_header(reg, selected_header) ==
    LET cur == reg.sorted_by
        output ==
            IF IsSome(cur) /\ Unwrap(cur)[1] = selected_header
            THEN IF Unwrap(cur)[2] = "Desc"
                 THEN None
                 ELSE Some(<<selected_header, "Desc">>)
            ELSE Some(<<selected_header, "Asc">>)
    IN  set_sorted(reg, output)

\* ContainerData::containers_start / _end / _next / _previous
containers_start(reg) ==
    [reg EXCEPT !.selected = StatefulList_start(Len(reg.items), reg.selected)]

containers_end(reg) ==
    [reg EXCEPT !.selected = StatefulList_end(Len(reg.items), reg.selected)]

containers_next(reg) ==
    [reg EXCEPT !.selected = StatefulList_next(Len(reg.items), reg.selected)]

containers_previous(reg) ==
    [reg EXCEPT !.selected = StatefulList_previous(Len(reg.items), reg.selected)]

\* ContainerData::get_mut_selected_container : index (1-based) of the
\* selected item, 0 when nothing is selected or the index is stale
get_mut_selected_container(reg) ==
    IF IsSome(reg.selected) /\ Unwrap(reg.selected) < Len(reg.items)
    THEN Unwrap(reg.selected) + 1
    ELSE 0

\* ContainerData::log_next / log_previous / log_end / log_start
log_next(reg) ==
    LET k == get_mut_selected_container(reg)
    IN  IF k = 0 THEN reg
        ELSE [reg EXCEPT !.items[k].logs.selected =
                 StatefulList_next(Len(reg.items[k].logs.items), @)]

log_previous(reg) ==
    LET k == get_mut_selected_container(reg)
    IN  IF k = 0 THEN reg
        ELSE [reg EXCEPT !.items[k].logs.selected =
                 StatefulList_previous(Len(reg.items[k].logs.items), @)]

log_end(reg) ==
    LET k == get_mut_selected_container(reg)
    IN  IF k = 0 THEN reg
        ELSE [reg EXCEPT !.items[k].logs.selected =
                 StatefulList_end(Len(reg.items[k].logs.items), @)]

log_start(reg) ==
    LET k == get_mut_selected_container(reg)
    IN  IF k = 0 THEN reg
        ELSE [reg EXCEPT !.items[k].logs.selected =
                 StatefulList_start(Len(reg.items[k].logs.items), @)]

\* ContainerData::get_container_by_id : index (1-based) of the first item
\* with this id, 0 when there is none
get_container_by_id(its, id) ==
    IF \E k \in 1..Len(its) : its[k].id = id
    THEN CHOOSE k \in 1..Len(its) :
            its[k].id = id /\ \A j \in 1..(k - 1) : its[j].id # id
    ELSE 0

\* the ids in the registry
ItemIds(its) == {its[k].id : k \in 1..Len(its)}

\* no id occurs twice
UniqueIds(its) == \A j, k \in 1..Len(its) : j # k => its[j].id # its[k].id

\* the item of its with this id (its ids being unique)
ItemOf(its, id) == its[get_container_by_id(its, id)]

\* two summaries of the snapshot carry the same id
HasDuplicateId(s) ==
    \E j, k \in 1..Len(s) : j # k /\ IsSome(s[j].id) /\ s[j].id = s[k].id

\* Vec::remove(index), index 0-based
RemoveAt(v, index) == SubSeq(v, 1, index) \o SubSeq(v, index + 2, Len(v))

\* the ids a snapshot lists: filter_map(|i| i.id.as_ref())
SnapshotIds(all_containers) ==
    {Unwrap(all_containers[k].id) :
        k \in {j \in 1..Len(all_containers) : IsSome(all_containers[j].id)}}

RECURSIVE InsertTailCreated(_, _)
InsertTailCreated(pre, x) ==
    IF pre # <<>> /\ OptInt_cmp(x.created, pre[Len(pre)].created) = "Less"
    THEN Append(InsertTailCreated(SubSeq(pre, 1, Len(pre) - 1), x), pre[Len(pre)])
    ELSE Append(pre, x)

\* the snapshot left in the order the runtime gave it
SortByCreated_kept(v) == v

RECURSIVE SortByCreated(_)
\* all_containers.sort_by(|a, b| a.created.cmp(&b.created))
SortByCreated(v) ==
    IF v = <<>> THEN <<>>
    ELSE InsertTailCreated(SortByCreated(SubSeq(v, 1, Len(v) - 1)), v[Len(v)])

RECURSIVE RemoveLoop(_, _, _, _, _)
\* update_containers, the loop over all_ids.iter().enumerate() : an id the
\* snapshot does not list moves the selection back and removes the item
\* that is at this index now
RemoveLoop(all_ids, index, snapIds, its, sel) ==
    IF index >= Len(all_ids) THEN [items |-> its, selected |-> sel]
    ELSE IF all_ids[index + 1] \in snapIds
         THEN RemoveLoop(all_ids, index + 1, snapIds, its, sel)
    ELSE LET sel1 == IF IsSome(sel)
                     THEN StatefulList_previous(Len(its), sel)
                     ELSE sel
             its1 == IF index < Len(its) THEN RemoveAt(its, index) ELSE its
         IN  RemoveLoop(all_ids, index + 1, snapIds, its1, sel1)

\* update_containers, the name of a summary: its first name without a
\* leading slash, the empty string when it has none
SummaryName(names) ==
    IF names = None \/ Unwrap(names) = <<>> THEN <<>>
    ELSE IF StartsWith(Unwrap(names)[1], <<"/">>) THEN Tail(Unwrap(names)[1])
    ELSE Unwrap(names)[1]

\* Upsert without the lookup by id: every summary is pushed as a new item
Upsert_always_push(its, i) ==
    Append(its,
           ContainerItem_new(
               IF i.created = None \/ Unwrap(i.created) < 0 THEN 0 ELSE Unwrap(i.created),
               Unwrap(i.id),
               IF i.image = None THEN <<>> ELSE Unwrap(i.image),
               SummaryName(i.names),
               State_from(IF i.state = None THEN sDead ELSE trim_owned(Unwrap(i.state))),
               IF i.status = None THEN <<>> ELSE trim_owned(Unwrap(i.status))))

\* update_containers, the body of the loop over the snapshot for a summary
\* with an id: patch the known item, else push a new one
Upsert(its, i) ==
    LET name == SummaryName(i.names)
        state == State_from(IF i.state = None THEN sDead
                            ELSE trim_owned(Unwrap(i.state)))
        status == IF i.status = None THEN <<>> ELSE trim_owned(Unwrap(i.status))
        image == IF i.image = None THEN <<>> ELSE Unwrap(i.image)
        id == Unwrap(i.id)
        created == IF i.created = None \/ Unwrap(i.created) < 0
                   THEN 0 ELSE Unwrap(i.created)
        k == get_container_by_id(its, id)
    IN  IF k # 0
        THEN [its EXCEPT ![k].name = name, ![k].status = status,
                         ![k].state = state, ![k].image = image]
        ELSE Append(its, ContainerItem_new(created, id, image, name, state, status))

RECURSIVE UpsertLoop(_, _)
\* update_containers, the loop `for i in all_containers`
UpsertLoop(all_containers, its) ==
    IF all_containers = <<>> THEN its
    ELSE UpsertLoop(Tail(all_containers),
                    IF IsSome(Head(all_containers).id)
                    THEN Upsert(its, Head(all_containers))
                    ELSE its)

\* ContainerData::update_containers
update_containers(reg, all_containers) ==
    LET all_ids == [k \in 1..Len(reg.items) |-> reg.items[k].id]
        snap == IF reg.items = <<>>
                THEN SortByCreated(all_containers)
                ELSE all_containers
        sel0 == IF snap # <<>> /\ reg.selected = None
                THEN StatefulList_start(Len(reg.items), reg.selected)
                ELSE reg.selected
        rem == RemoveLoop(all_ids, 0, SnapshotIds(snap), reg.items, sel0)
    IN  [reg EXCEPT !.items = UpsertLoop(snap, rem.items),
                    !.selected = rem.selected]

\* capacity of the cpu_stats and mem_stats windows
WindowCap == 60

\* PushStats evicting one call late: `>` in place of `>=`
PushStats_late_evict(container, cpu_stat, mem_stat) ==
    LET cpu1 == IF Len(container.cpu_stats) > WindowCap
                THEN Tail(container.cpu_stats) ELSE container.cpu_stats
        mem1 == IF Len(container.mem_stats) > WindowCap
                THEN Tail(container.mem_stats) ELSE container.mem_stats
    IN  [container EXCEPT
            !.cpu_stats = IF IsSome(cpu_stat) THEN Append(cpu1, Unwrap(cpu_stat))
                          ELSE cpu1,
            !.mem_stats = IF IsSome(mem_stat) THEN Append(mem1, Unwrap(mem_stat))
                          ELSE mem1]

\* update_stats, the two windows: evict when full, then push what is given
PushStats(container, cpu_stat, mem_stat) ==
    LET cpu1 == IF Len(container.cpu_stats) >= WindowCap
                THEN Tail(container.cpu_stats) ELSE container.cpu_stats
        mem1 == IF Len(container.mem_stats) >= WindowCap
                THEN Tail(container.mem_stats) ELSE container.mem_stats
    IN  [container EXCEPT
            !.cpu_stats = IF IsSome(cpu_stat) THEN Append(cpu1, Unwrap(cpu_stat))
                          ELSE cpu1,
            !.mem_stats = IF IsSome(mem_stat) THEN Append(mem1, Unwrap(mem_stat))
                          ELSE mem1]

\* ContainerData::update_stats
update_stats(reg, id, cpu_stat, mem_stat, mem_limit, rx, tx) ==
    LET k == get_container_by_id(reg.items, id)
        its == IF k # 0
               THEN [reg.items EXCEPT
                        ![k] = [PushStats(@, cpu_stat, mem_stat) EXCEPT
                                   !.rx = rx, !.tx = tx, !.mem_limit = mem_limit]]
               ELSE reg.items
    IN  sort_containers([reg EXCEPT !.items = its])

\* log_sanitizer::colorize_logs / raw / remove_ansi on text without escape
\* sequences: the text itself
log_sanitizer(i, a) == i

RECURSIVE InsertLogs(_, _, _)
\* update_log_by_id, the loop `for mut i in logs`
InsertLogs(logs, lines, a) ==
    IF lines = <<>> THEN logs
    ELSE LET tz == LogsTz_from(Head(lines))
             i == IF ~a.timestamp THEN Replace(Head(lines), tz) ELSE Head(lines)
         IN  InsertLogs(Logs_insert(logs, log_sanitizer(i, a), tz), Tail(lines), a)

\* update_log_by_id moving the log selection to the end on every call
update_log_by_id_always_end(reg, lines, id, a) ==
    LET k == get_container_by_id(reg.items, id)
        after == InsertLogs(reg.items[k].logs, lines, a)
    IN  IF k = 0 THEN reg
        ELSE [reg EXCEPT !.items[k].logs =
                 [after EXCEPT !.selected =
                     StatefulList_end(Len(after.items), after.selected)]]

\* ContainerData::update_log_by_id
update_log_by_id(reg, lines, id, a) ==
    LET k == get_container_by_id(reg.items, id)
        current_len == Len(reg.items[k].logs.items)
        before == reg.items[k].logs
        after == InsertLogs(before, lines, a)
        at_end == before.selected = None \/ Unwrap(before.selected) + 1 = current_len
    IN  IF k = 0 THEN reg
        ELSE [reg EXCEPT !.items[k].logs =
                 IF at_end
                 THEN [after EXCEPT !.selected =
                          StatefulList_end(Len(after.items), after.selected)]
                 ELSE after]

(***************************************************************************)
(* GuiState                                                                *)
(* A gui value is [nav, status, delete_container, info_box_text,           *)
(* delete_map].                                                            *)
(***************************************************************************)
\* NavPanel::Containers, and NavPanel::Logs with its container_name
NavContainers == <<"Containers">>

NavLogs(container_name) == <<"Logs", container_name>>

\* #[derive(Default)] for GuiState
GuiState_default ==
    [nav |-> <<>>, status |-> {}, delete_container |-> None,
     info_box_text |-> None, delete_map |-> FALSE]

\* GuiState::get_current_nav, the stack it leaves: the root is pushed when
\* the stack is empty
nav_initialised(g) ==
    IF g.nav = <<>> THEN [g EXCEPT !.nav = <<NavContainers>>] ELSE g

\* GuiState::get_current_nav, the panel it returns: the top
get_current_nav(g) == nav_initialised(g).nav[Len(nav_initialised(g).nav)]

\* GuiState::append_nav
append_nav(g, panel) == [g EXCEPT !.nav = Append(@, panel)]

\* GuiState::back_in_nav : the top is removed unless it is the only element
back_in_nav(g) ==
    IF Len(g.nav) <= 1 THEN g
    ELSE [g EXCEPT !.nav = SubSeq(@, 1, Len(@) - 1)]

\* GuiState::get_delete_container
get_delete_container(g) == g.delete_container

\* set_delete_container storing the id and leaving the status set alone
set_delete_container_id_only(g, id) ==
    [g EXCEPT !.delete_map = IF IsSome(id) THEN @ ELSE FALSE,
              !.delete_container = id]

\* GuiState::set_delete_container
set_delete_container(g, id) ==
    [g EXCEPT !.status = IF IsSome(id) THEN @ \cup {"DeleteConfirm"}
                         ELSE @ \ {"DeleteConfirm"},
              !.delete_map = IF IsSome(id) THEN @ ELSE FALSE,
              !.delete_container = id]

\* GuiState::update_region_map for Region::Delete, both buttons
update_region_map_delete(g) == [g EXCEPT !.delete_map = TRUE]

\* GuiState::button_intersect : the button under the click, hit being the
\* button whose place was clicked
button_intersect_lookup(g, hit) == IF g.delete_map THEN hit ELSE None

\* GuiState::header_intersect : heading_map is filled by heading_bar alone,
\* which no frame draws, so no header is ever found
header_intersect(g) == None

\* GuiState::status_contains
status_contains(g, sts) == g.status \cap sts # {}

\* GuiState::status_del
status_del(g, st) == [g EXCEPT !.status = @ \ {st}]

\* GuiState::status_push
status_push(g, st) == [g EXCEPT !.status = @ \cup {st}]

\* GuiState::set_info_box
set_info_box(g, text) == [g EXCEPT !.info_box_text = Some(text)]

\* GuiState::reset_info_box
reset_info_box(g) == [g EXCEPT !.info_box_text = None]

\* ContainerData::get_selected_container_name
get_selected_container_name(reg) ==
    IF IsSome(get_selected_container(reg))
    THEN Some(Unwrap(get_selected_container(reg)).name)
    ELSE None

\* ContainerData::get_container_name_by_id
get_container_name_by_id(reg, id) ==
    IF get_container_by_id(reg.items, id) # 0
    THEN Some(ItemOf(reg.items, id).name)
    ELSE None

(***************************************************************************)
(* InputHandler                                                            *)
(* A world value is [reg, error, gui, mouse_capture, info_sleep,           *)
(* is_running, docker_tx]; a key is [code, ctrl], ctrl meaning that the    *)
(* modifiers are exactly CONTROL.                                          *)
(***************************************************************************)
\* capacity of the channel to the orchestrator
DockerCap == 32

\* Sender::send once the channel has room
send(w, message) == [w EXCEPT !.docker_tx = Append(@, message)]

\* InputHandler::m_key; ok is the outcome of the terminal command
m_key(w, ok) ==
    LET told ==
            IF ok
            THEN [w EXCEPT !.gui =
                     set_info_box(@, IF w.mouse_capture
                                     THEN "mouse capture disabled"
                                     ELSE "mouse capture enabled")]
            ELSE [w EXCEPT !.error = Some(<<"MouseCapture", ~w.mouse_capture>>),
                           !.gui = status_push(@, "Error")]
    IN  [told EXCEPT !.info_sleep = TRUE, !.mouse_capture = ~@]

\* InputHandler::sort
sort(w, selected_header) ==
    [w EXCEPT !.reg = set_sort_by_header(@, selected_header)]

\* InputHandler::quit
quit(w) ==
    IF status_contains(w.gui, {"Error", "Init"})
    THEN [w EXCEPT !.is_running = FALSE]
    ELSE send(w, <<"Quit">>)

\* confirm_delete sending nothing
confirm_delete_silent(w) == w

\* InputHandler::confirm_delete
confirm_delete(w) ==
    IF IsSome(get_delete_container(w.gui))
    THEN send(w, <<"Delete", Unwrap(get_delete_container(w.gui))>>)
    ELSE w

\* InputHandler::clear_delete
clear_delete(w) == [w EXCEPT !.gui = set_delete_container(@, None)]

\* InputHandler::next
next(w) ==
    [w EXCEPT !.gui = nav_initialised(@),
              !.reg = IF get_current_nav(w.gui) = NavContainers
                      THEN containers_next(@) ELSE log_next(@)]

\* InputHandler::previous
previous(w) ==
    [w EXCEPT !.gui = nav_initialised(@),
              !.reg = IF get_current_nav(w.gui) = NavContainers
                      THEN containers_previous(@) ELSE log_previous(@)]

\* n calls of next, n calls of previous
RECURSIVE next_times(_, _)
next_times(w, n) == IF n = 0 THEN w ELSE next_times(next(w), n - 1)

RECURSIVE previous_times(_, _)
previous_times(w, n) ==
    IF n = 0 THEN w ELSE previous_times(previous(w), n - 1)

\* the sort keys '1' .. '9'
SortKeys ==
    [c \in {"1", "2", "3", "4", "5", "6", "7", "8", "9"} |->
        CASE c = "1" -> "State" [] c = "2" -> "Status" [] c = "3" -> "Cpu"
          [] c = "4" -> "Memory" [] c = "5" -> "Id" [] c = "6" -> "Name"
          [] c = "7" -> "Image" [] c = "8" -> "Rx" [] c = "9" -> "Tx"]

\* InputHandler::button_press, the arm taken when no modal status is set
normal_mode(w, key, ok) ==
    CASE key.code \in {"Enter", "l"} ->
            IF get_current_nav(w.gui) = NavContainers
            THEN [w EXCEPT !.gui =
                     append_nav(nav_initialised(@),
                         NavLogs(IF IsSome(get_selected_container_name(w.reg))
                                 THEN Unwrap(get_selected_container_name(w.reg))
                                 ELSE <<"N", "/", "A">>))]
            ELSE [w EXCEPT !.gui = nav_initialised(@)]
      [] key.code = "Esc" -> [w EXCEPT !.gui = back_in_nav(@)]
      [] key.code = "0" -> [w EXCEPT !.reg = reset_sorted(@)]
      [] key.code \in DOMAIN SortKeys -> sort(w, SortKeys[key.code])
      [] key.code \in {"h", "H"} -> [w EXCEPT !.gui = status_push(@, "Help")]
      [] key.code \in {"m", "M"} -> m_key(w, ok)
      [] key.code = "Home" ->
            [w EXCEPT !.gui = nav_initialised(@),
                      !.reg = IF get_current_nav(w.gui) = NavContainers
                              THEN containers_start(@) ELSE log_start(@)]
      [] key.code = "End" ->
            [w EXCEPT !.gui = nav_initialised(@),
                      !.reg = IF get_current_nav(w.gui) = NavContainers
                              THEN containers_end(@) ELSE log_end(@)]
      [] key.code = "Up" -> previous(w)
      [] key.code = "PageUp" -> previous_times(w, 7)
      [] key.code = "Down" -> next(w)
      [] key.code = "PageDown" -> next_times(w, 7)
      [] OTHER -> w

\* InputHandler::button_press after the quit check: the chain of modal arms,
\* entered with the three flags read at the top of button_press
button_press_arms(w, contains_error, contains_help, contains_delete, key, ok) ==
    IF contains_error
    THEN IF key.code \in {"c", "C"}
         THEN [w EXCEPT !.error = None, !.gui = status_del(@, "Error")]
         ELSE w
    ELSE IF contains_help
    THEN CASE key.code \in {"h", "H"} -> [w EXCEPT !.gui = status_del(@, "Help")]
           [] key.code \in {"m", "M"} -> m_key(w, ok)
           [] OTHER -> w
    ELSE IF contains_delete
    THEN CASE key.code \in {"y", "Y"} -> confirm_delete(w)
           [] key.code \in {"n", "N"} -> clear_delete(w)
           [] OTHER -> w
    ELSE normal_mode(w, key, ok)

\* the condition of the quit check of button_press
is_quit(key) ==
    (key.ctrl /\ key.code \in {"c", "C"}) \/ key.code \in {"q", "Q"}

\* InputHandler::button_press
button_press(w, key, ok) ==
    button_press_arms(IF is_quit(key) THEN quit(w) ELSE w,
                      status_contains(w.gui, {"Error"}),
                      status_contains(w.gui, {"Help"}),
                      status_contains(w.gui, {"DeleteConfirm"}),
                      key, ok)

\* InputHandler::mouse_press; the panel selection it sets (selected_panel)
\* is read by no handler and is left out
mouse_press(w, mouse_event) ==
    CASE mouse_event.kind = "ScrollUp" -> previous(w)
      [] mouse_event.kind = "ScrollDown" -> next(w)
      [] mouse_event.kind = "DownLeft" ->
            IF IsSome(header_intersect(w.gui))
            THEN sort(w, Unwrap(header_intersect(w.gui)))
            ELSE w
      [] OTHER -> w

\* InputHandler::button_intersect
button_intersect(w, mouse_event) ==
    IF mouse_event.kind = "DownLeft"
    THEN LET intersect == button_intersect_lookup(w.gui, mouse_event.hit)
         IN  IF intersect = Some("Yes") THEN confirm_delete(w)
             ELSE IF intersect = Some("No") THEN clear_delete(w)
             ELSE w
    ELSE w

\* InputHandler::start, the arm for InputMessages::MouseEvent
mouse_event_arm(w, mouse_event) ==
    LET error_or_help ==
            status_contains(w.gui, {"Error", "Help", "DeleteConfirm"})
        pressed == IF ~error_or_help THEN mouse_press(w, mouse_event) ELSE w
        delete_confirm == status_contains(pressed.gui, {"DeleteConfirm"})
    IN  IF delete_confirm THEN button_intersect(pressed, mouse_event)
        ELSE pressed

\* draw_frame, what it writes: the navigation stack is initialised; the
\* buttons of the delete dialog are registered, or the delete request for a
\* container that is gone is cleared
draw_frame(w) ==
    LET delete_confirm == get_delete_container(w.gui)
        shown == [w EXCEPT !.gui = nav_initialised(@)]
    IN  IF IsSome(delete_confirm)
        THEN IF get_container_name_by_id(w.reg, Unwrap(delete_confirm)) = None
             THEN [shown EXCEPT !.gui = set_delete_container(@, None)]
             ELSE [shown EXCEPT !.gui = update_region_map_delete(@)]
        ELSE shown

\* a mutex nobody holds
Free == "free"

\* the locals of gui_loop: delete_confirm of draw_frame, event of event::read
RenderLocal_default == [delete_confirm |-> None, event |-> None]

\* the locals of start, button_press, quit and confirm_delete; move and left
\* are the move a key or a scroll asks for and the calls of it still to make,
\* after is the place the handler goes on from
InputLocal_default ==
    [message |-> None, contains_error |-> FALSE, contains_help |-> FALSE,
     contains_delete |-> FALSE, move |-> "", left |-> 0, after |-> "",
     id |-> None]

\* let mut seconds = 5 of Ui::err_loop
Countdown == 5

\* the tasks with main at pc and the orchestrator spawned or not
TaskInitAt(pc, spawned) ==
    /\ app_lock = Free
    /\ gui_lock = Free
    /\ render_pc = pc
    /\ render_local = RenderLocal_default
    /\ input_pc = "recv"
    /\ input_local = InputLocal_default
    /\ input_tx = <<>>
    /\ docker_spawned = spawned
    /\ seconds = Countdown

\* the tasks once docker_init has spawned the orchestrator and Ui::draw_ui
\* has entered gui_loop
TaskInit == TaskInitAt("while", TRUE)

\* the state main builds: GuiState::default(), AppData::default(args), the
\* input handler of InputHandler::init, the run flag set, the channel empty
GuiStateInit ==
    /\ error = None
    /\ nav = GuiState_default.nav
    /\ gui_status = GuiState_default.status
    /\ delete_container = GuiState_default.delete_container
    /\ info_box_text = GuiState_default.info_box_text
    /\ delete_map = GuiState_default.delete_map
    /\ mouse_capture = TRUE
    /\ info_sleep = FALSE
    /\ is_running = TRUE
    /\ docker_tx = <<>>

\* the state main has built once docker_init has spawned the orchestrator
\* and Ui::draw_ui has entered gui_loop
GuiInit ==
    /\ GuiStateInit
    /\ TaskInit

(***************************************************************************)
(* Inputs                                                                  *)
(***************************************************************************)
\* longest snapshot the runtime returns
MaxSnap == 3

\* longest cpu or mem history the registry specification lets grow
MaxHist == 1

\* container summaries the runtime can return: container a in two versions
\* (renamed, restarted, other image), b, c with every optional field
\* missing, and a summary without an id
RawPool ==
    { [id |-> Some(<<"a">>), names |-> Some(<< <<"/", "w">> >>),
       image |-> Some(<<"i">>), state |-> Some(sRunning),
       status |-> Some(<<" ", "u", "p">>), created |-> Some(2)],
      [id |-> Some(<<"a">>), names |-> Some(<< <<"b", "c">>, <<"w">> >>),
       image |-> Some(<<"j">>), state |-> Some(sExited),
       status |-> Some(<<"e", "x">>), created |-> Some(2)],
      [id |-> Some(<<"b">>), names |-> Some(<< <<"d">> >>),
       image |-> Some(<<"i">>), state |-> Some(sPaused),
       status |-> Some(<<"u", "p">>), created |-> Some(1)],
      [id |-> Some(<<"c">>), names |-> None,
       image |-> None, state |-> None,
       status |-> None, created |-> None],
      [id |-> None, names |-> Some(<< <<"n">> >>),
       image |-> Some(<<"i">>), state |-> Some(sRunning),
       status |-> Some(<<"u", "p">>), created |-> Some(3)] }

\* every sequence over S of length at most n
SeqsUpTo(S, n) == UNION {[1..k -> S] : k \in 0..n}

Snapshots == SeqsUpTo(RawPool, MaxSnap)

\* stat samples: (cpu, mem, mem_limit, rx, tx)
StatPool ==
    { <<Some(3), Some(5), 9, 1, 2>>,
      <<None, Some(0), 9, 0, 0>> }

\* raw log lines: two with the same timestamp, one with another, one
\* without a space, one that repeats its timestamp, the empty line
LogLines ==
    { <<"1", " ", "x">>, <<"1", " ", "y">>, <<"2", " ", "x">>,
      <<"3">>, <<"2", " ", "2", " ">>, <<>> }

(***************************************************************************)
(* Actions: one per operation of ContainerData, over the inputs given      *)
(***************************************************************************)
Reg == [items |-> items, selected |-> selected, sorted_by |-> sorted_by]

SetReg(r) ==
    /\ items' = r.items
    /\ selected' = r.selected
    /\ sorted_by' = r.sorted_by

\* the registry variables of an initial state
SetRegInit(r) ==
    /\ items = r.items
    /\ selected = r.selected
    /\ sorted_by = r.sorted_by

Reconcile(snaps) ==
    /\ \E s \in snaps : SetReg(update_containers(Reg, s))
    /\ UNCHANGED outside

\* the histories of the container named id may still grow to cap
HistRoom(id, cap) ==
    \A k \in 1..Len(items) :
        items[k].id = id =>
            /\ Len(items[k].cpu_stats) < cap
            /\ Len(items[k].mem_stats) < cap

UpdateStats(ids, pool, cap) ==
    /\ \E id \in ids, st \in pool :
          /\ HistRoom(id, cap)
          /\ SetReg(update_stats(Reg, id, st[1], st[2], st[3], st[4], st[5]))
    /\ UNCHANGED outside

UpdateLogs(ids, batches) ==
    /\ \E id \in ids, b \in batches :
          SetReg(update_log_by_id(Reg, b, id, args))
    /\ UNCHANGED outside

SetSort(heads) ==
    /\ \E h \in heads : SetReg(set_sort_by_header(Reg, h))
    /\ UNCHANGED outside

ResetSort ==
    /\ SetReg(reset_sorted(Reg))
    /\ UNCHANGED outside

ContainersStart ==
    /\ SetReg(containers_start(Reg))
    /\ UNCHANGED outside

ContainersEnd ==
    /\ SetReg(containers_end(Reg))
    /\ UNCHANGED outside

ContainersNext ==
    /\ SetReg(containers_next(Reg))
    /\ UNCHANGED outside

ContainersPrevious ==
    /\ SetReg(containers_previous(Reg))
    /\ UNCHANGED outside

(***************************************************************************)
(* Spec: the registry under reconciliation, selection moves and sorting,   *)
(* with stats for container a (and a stranger) and one log line for        *)
(* container b (and a stranger)                                            *)
(***************************************************************************)
RegHeaders == {"Name", "Cpu"}

RegStatIds == {<<"a">>, <<"z">>}

RegLogIds == {<<"b">>, <<"z">>}

RegLogBatches == {<< <<"1", " ", "x">> >>}

Init ==
    /\ items = ContainerData_new.items
    /\ selected = ContainerData_new.selected
    /\ sorted_by = ContainerData_new.sorted_by
    /\ args = [color |-> FALSE, raw |-> FALSE, timestamp |-> TRUE]
    /\ stat_calls = <<>>
    /\ log_calls = <<>>
    /\ GuiInit

Next ==
    \/ Reconcile(Snapshots)
    \/ UpdateStats(RegStatIds, StatPool, MaxHist)
    \/ UpdateLogs(RegLogIds, RegLogBatches)
    \/ SetSort(RegHeaders)
    \/ ResetSort
    \/ ContainersStart
    \/ ContainersEnd
    \/ ContainersNext
    \/ ContainersPrevious

Spec == Init /\ [][Next]_vars

(***************************************************************************)
(* SpecStats: the stats windows of one container filled past their         *)
(* capacity.  The registry holds containers a and b; update_stats is       *)
(* called for a.  Call number n carries the samples cpu = n and mem = n;   *)
(* the calls numbered in OmitAt may leave one of the two out.              *)
(***************************************************************************)
\* number of update_stats calls in a run
MaxPush == 63

\* the calls that may come without a cpu or without a mem sample: one into
\* an empty window, two into a full one
OmitAt == {2, 61, 62}

StatsSnapshot ==
    << [id |-> Some(<<"a">>), names |-> Some(<< <<"/", "w">> >>),
        image |-> Some(<<"i">>), state |-> Some(sRunning),
        status |-> Some(<<"u", "p">>), created |-> Some(2)],
       [id |-> Some(<<"b">>), names |-> Some(<< <<"d">> >>),
        image |-> Some(<<"i">>), state |-> Some(sPaused),
        status |-> Some(<<"u", "p">>), created |-> Some(1)] >>

InitStats ==
    /\ SetRegInit(update_containers(ContainerData_new, StatsSnapshot))
    /\ args = [color |-> FALSE, raw |-> FALSE, timestamp |-> TRUE]
    /\ stat_calls = <<>>
    /\ log_calls = <<>>
    /\ GuiInit

\* update_stats for container a with both samples
PushBoth ==
    /\ Len(stat_calls) < MaxPush
    /\ LET n == Len(stat_calls) + 1
       IN  /\ SetReg(update_stats(Reg, <<"a">>, Some(n), Some(n), 9, n, n))
           /\ stat_calls' = Append(stat_calls, <<Some(n), Some(n)>>)
    /\ UNCHANGED <<args, log_calls, guiVars, taskVars>>

\* update_stats for container a without a cpu sample
PushMemOnly ==
    /\ Len(stat_calls) < MaxPush
    /\ Len(stat_calls) + 1 \in OmitAt
    /\ LET n == Len(stat_calls) + 1
       IN  /\ SetReg(update_stats(Reg, <<"a">>, None, Some(n), 9, n, n))
           /\ stat_calls' = Append(stat_calls, <<None, Some(n)>>)
    /\ UNCHANGED <<args, log_calls, guiVars, taskVars>>

\* update_stats for container a without a mem sample
PushCpuOnly ==
    /\ Len(stat_calls) < MaxPush
    /\ Len(stat_calls) + 1 \in OmitAt
    /\ LET n == Len(stat_calls) + 1
       IN  /\ SetReg(update_stats(Reg, <<"a">>, Some(n), None, 9, n, n))
           /\ stat_calls' = Append(stat_calls, <<Some(n), None>>)
    /\ UNCHANGED <<args, log_calls, guiVars, taskVars>>

NextStats ==
    \/ PushBoth
    \/ PushMemOnly
    \/ PushCpuOnly

SpecStats == InitStats /\ [][NextStats]_vars

\* the cpu samples pushed so far, in push order
RECURSIVE CpuPushed(_)
CpuPushed(calls) ==
    IF calls = <<>> THEN <<>>
    ELSE CpuPushed(SubSeq(calls, 1, Len(calls) - 1))
            \o calls[Len(calls)][1]

\* the last n elements of q
LastN(q, n) == SubSeq(q, Len(q) - n + 1, Len(q))

\* C6: every cpu and mem history holds at most 60 samples, and after more
\* than 60 calls for one item that each carry a cpu sample its cpu history
\* is the last 60 pushed values in push order.
C6_WindowBound ==
    /\ \A k \in 1..Len(items) :
          /\ Len(items[k].cpu_stats) <= WindowCap
          /\ Len(items[k].mem_stats) <= WindowCap
    /\ ( /\ Len(stat_calls) > WindowCap
         /\ \A c \in 1..Len(stat_calls) : IsSome(stat_calls[c][1]) )
       => ItemOf(items, <<"a">>).cpu_stats = LastN(CpuPushed(stat_calls), WindowCap)

\* 62 calls that all carry a cpu sample: the two oldest samples are gone
C6_Witness ==
    /\ Len(stat_calls) = WindowCap + 2
    /\ \A c \in 1..Len(stat_calls) : IsSome(stat_calls[c][1])
    /\ Len(ItemOf(items, <<"a">>).cpu_stats) = WindowCap
    /\ ItemOf(items, <<"a">>).cpu_stats[1] = 3

(***************************************************************************)
(* SpecLogs: the log store of container a.  The registry holds containers  *)
(* a and b; update_log_by_id is called for a with batches of raw lines,    *)
(* and the log selection of the selected container is moved.               *)
(***************************************************************************)
\* most raw lines in one update_log_by_id call
MaxLogBatch == 2

\* most raw lines handed to update_log_by_id in a run
MaxLogLines == 3

LogBatches == SeqsUpTo(LogLines, MaxLogBatch)

InitLogs ==
    /\ SetRegInit(update_containers(ContainerData_new, StatsSnapshot))
    /\ args \in [color : {FALSE}, raw : {FALSE}, timestamp : BOOLEAN]
    /\ stat_calls = <<>>
    /\ log_calls = <<>>
    /\ GuiInit

\* update_log_by_id for container a
InsertLogLines ==
    /\ \E b \in LogBatches :
          /\ Len(log_calls) + Len(b) <= MaxLogLines
          /\ SetReg(update_log_by_id(Reg, b, <<"a">>, args))
          /\ log_calls' = log_calls \o b
    /\ UNCHANGED <<args, stat_calls, guiVars, taskVars>>

\* update_log_by_id for an id the registry does not hold
InsertLogLinesStranger ==
    /\ \E b \in LogBatches : SetReg(update_log_by_id(Reg, b, <<"z">>, args))
    /\ UNCHANGED outside

LogNext ==
    /\ SetReg(log_next(Reg))
    /\ UNCHANGED outside

LogPrevious ==
    /\ SetReg(log_previous(Reg))
    /\ UNCHANGED outside

LogEnd ==
    /\ SetReg(log_end(Reg))
    /\ UNCHANGED outside

LogStart ==
    /\ SetReg(log_start(Reg))
    /\ UNCHANGED outside

NextLogs ==
    \/ InsertLogLines
    \/ InsertLogLinesStranger
    \/ LogNext
    \/ LogPrevious
    \/ LogEnd
    \/ LogStart
    \/ ContainersNext
    \/ ContainersPrevious

SpecLogs == InitLogs /\ [][NextLogs]_vars

\* the raw lines that are the first of their timestamp, in insertion order
RECURSIVE FirstOfTimestamp(_)
FirstOfTimestamp(lines) ==
    IF lines = <<>> THEN <<>>
    ELSE LET init == SubSeq(lines, 1, Len(lines) - 1)
             l == lines[Len(lines)]
         IN  IF \E j \in 1..Len(init) : LogsTz_from(init[j]) = LogsTz_from(l)
             THEN FirstOfTimestamp(init)
             ELSE Append(FirstOfTimestamp(init), l)

\* a raw line as the log panel shows it: with or without its timestamp
Shown(l) == IF args.timestamp THEN l ELSE Replace(l, LogsTz_from(l))

\* C7: the stored lines of a log store are, in insertion order, the raw
\* lines that were the first inserted with their leading timestamp token:
\* one line per timestamp, the first one; no two stored lines share a
\* timestamp.
C7_LogDedup ==
    LET logs == ItemOf(items, <<"a">>).logs
        first == FirstOfTimestamp(log_calls)
    IN  /\ logs.items = [k \in 1..Len(first) |-> Shown(first[k])]
        /\ logs.tz = {LogsTz_from(first[k]) : k \in 1..Len(first)}
        /\ Cardinality(logs.tz) = Len(logs.items)
        /\ args.timestamp =>
              \A j, k \in 1..Len(logs.items) :
                  j # k => LogsTz_from(logs.items[j]) # LogsTz_from(logs.items[k])

\* "1 x" then "1 y" then "2 x" were inserted, the first two in one call or
\* in two: "1 x" and "2 x" are stored
C7_Witness ==
    /\ log_calls = << <<"1", " ", "x">>, <<"1", " ", "y">>, <<"2", " ", "x">> >>
    /\ Len(ItemOf(items, <<"a">>).logs.items) = 2
    /\ args.timestamp
    /\ ItemOf(items, <<"a">>).logs.items[1] = <<"1", " ", "x">>

(***************************************************************************)
(* SpecGui: the input handler, the frame drawing and the orchestrator's    *)
(* end of the command channel, from the state main builds.  The registry   *)
(* is reconciled with the snapshots of GuiSnaps; the keys pressed are      *)
(* those of GuiKeys.  A key is handled while the run flag is set (the      *)
(* render loop, which produces the keys, runs while it is set).            *)
(***************************************************************************)
\* most messages the model lets wait in the channel to the orchestrator
MaxQueued == 1

World ==
    [reg |-> Reg, error |-> error,
     gui |-> [nav |-> nav, status |-> gui_status,
              delete_container |-> delete_container,
              info_box_text |-> info_box_text, delete_map |-> delete_map],
     mouse_capture |-> mouse_capture, info_sleep |-> info_sleep,
     is_running |-> is_running, docker_tx |-> docker_tx]

SetWorld(w) ==
    /\ SetReg(w.reg)
    /\ error' = w.error
    /\ nav' = w.gui.nav
    /\ gui_status' = w.gui.status
    /\ delete_container' = w.gui.delete_container
    /\ info_box_text' = w.gui.info_box_text
    /\ delete_map' = w.gui.delete_map
    /\ mouse_capture' = w.mouse_capture
    /\ info_sleep' = w.info_sleep
    /\ is_running' = w.is_running
    /\ docker_tx' = w.docker_tx

GuiSnaps == {<<>>, StatsSnapshot}

GuiKeys ==
    {[code |-> c, ctrl |-> FALSE] :
        c \in {"Enter", "l", "Esc", "0", "h", "m", "Home", "End", "Up",
               "Down", "PageUp", "PageDown", "c", "q", "y", "n", "x"}}
    \cup {[code |-> "c", ctrl |-> TRUE]}

\* one ButtonPress message handled by InputHandler::start; a send waits
\* while the channel is full
ButtonPress(keys) ==
    /\ is_running
    /\ \E key \in keys, ok \in BOOLEAN :
          /\ Len(button_press(World, key, ok).docker_tx) <= DockerCap
          /\ Len(button_press(World, key, ok).docker_tx) <= MaxQueued
          /\ SetWorld(button_press(World, key, ok))
    /\ UNCHANGED <<args, histVars, taskVars>>

\* the mouse events Ui::gui_loop passes on, with the button under a click
MouseEvents ==
    {[kind |-> k, hit |-> None] :
        k \in {"ScrollUp", "ScrollDown", "DownLeft", "DownRight"}}
    \cup {[kind |-> "DownLeft", hit |-> Some(b)] : b \in {"Yes", "No"}}

\* one MouseEvent message handled by InputHandler::start
MouseEvent ==
    /\ is_running
    /\ \E ev \in MouseEvents :
          /\ Len(mouse_event_arm(World, ev).docker_tx) <= DockerCap
          /\ Len(mouse_event_arm(World, ev).docker_tx) <= MaxQueued
          /\ SetWorld(mouse_event_arm(World, ev))
    /\ UNCHANGED <<args, histVars, taskVars>>

\* one frame of Ui::gui_loop
DrawFrame ==
    /\ is_running
    /\ "DockerConnect" \notin gui_status
    /\ SetWorld(draw_frame(World))
    /\ UNCHANGED <<args, histVars, taskVars>>

\* the timer m_key spawned ends
InfoSleep ==
    /\ info_sleep
    /\ SetWorld([World EXCEPT !.info_sleep = FALSE,
                              !.gui = reset_info_box(@)])
    /\ UNCHANGED <<args, histVars, taskVars>>

\* a reconciliation that takes a successful poll for the end of the error
GuiReconcile_clears_error ==
    /\ \E s \in GuiSnaps : SetReg(update_containers(Reg, s))
    /\ error' = None
    /\ gui_status' = gui_status \ {"Error"}
    /\ UNCHANGED <<args, histVars, taskVars, nav, delete_container,
                   info_box_text, delete_map, mouse_capture, info_sleep,
                   is_running, docker_tx>>

\* the orchestrator reconciles the registry
GuiReconcile == Reconcile(GuiSnaps)

\* the orchestrator asks for the confirmation of a delete
ConfirmDeleteContainer ==
    /\ \E k \in 1..Len(items) :
          SetWorld([World EXCEPT
                       !.gui = set_delete_container(@, Some(items[k].id))])
    /\ UNCHANGED <<args, histVars, taskVars>>

\* the orchestrator receives a message: Quit clears the run flag, a
\* Delete that fails sets the error
DockerRecv ==
    /\ docker_tx # <<>>
    /\ \E ok \in BOOLEAN :
          SetWorld(
              LET taken == [World EXCEPT !.docker_tx = Tail(@)]
              IN  IF Head(docker_tx) = <<"Quit">>
                  THEN [taken EXCEPT !.is_running = FALSE]
                  ELSE IF ok THEN taken
                  ELSE [taken EXCEPT !.error = Some(<<"DockerCommand", "Delete">>),
                                     !.gui = status_push(@, "Error")])
    /\ UNCHANGED <<args, histVars, taskVars>>

InitGui == Init

NextGui ==
    \/ ButtonPress(GuiKeys)
    \/ MouseEvent
    \/ DrawFrame
    \/ InfoSleep
    \/ GuiReconcile
    \/ ConfirmDeleteContainer
    \/ DockerRecv

SpecGui == InitGui /\ [][NextGui]_vars

\* C8: in every reachable state the navigation stack has at least one
\* element and Containers at the bottom, and Esc on a one-element stack
\* leaves the stack as it is
C8_NavNeverEmpty ==
    /\ Len(nav) >= 1
    /\ nav[1] = NavContainers
    /\ Len(nav) = 1 => back_in_nav(World.gui).nav = nav

\* the quit combination: Ctrl+c, Ctrl+C, q, Q
QuitKeys ==
    {[code |-> c, ctrl |-> TRUE] : c \in {"c", "C", "q", "Q"}}
    \cup {[code |-> c, ctrl |-> FALSE] : c \in {"q", "Q"}}

\* C14: for the quit combination only the quit handling runs: whatever the
\* modal flags, the dispatcher leaves the state that quit alone leaves
C14_QuitOnly ==
    \A key \in QuitKeys, ok \in BOOLEAN :
        button_press(World, key, ok) = quit(World)

\* every key: each key code the dispatcher tells apart, and one more,
\* alone or with the Control modifier
AllKeys ==
    {[code |-> c, ctrl |-> m] :
        c \in {"Enter", "l", "Esc", "0", "h", "H", "m", "M", "Home", "End",
               "Up", "Down", "PageUp", "PageDown", "c", "C", "q", "Q", "y",
               "Y", "n", "N", "x"} \cup DOMAIN SortKeys,
        m \in BOOLEAN}

\* C15: while Error is set, no key but the quit combination and the dismiss
\* key, and no mouse event, changes anything or sends a message; while Help
\* is set and Error is not, no key but the quit combination, the help key
\* and the mouse-capture key, and no mouse event, does
C15_ModalInputIgnored ==
    /\ "Error" \in gui_status =>
          /\ \A key \in AllKeys \ QuitKeys, ok \in BOOLEAN :
                key.code \notin {"c", "C"} => button_press(World, key, ok) = World
          /\ \A ev \in MouseEvents : mouse_event_arm(World, ev) = World
    /\ ("Help" \in gui_status /\ "Error" \notin gui_status) =>
          /\ \A key \in AllKeys \ QuitKeys, ok \in BOOLEAN :
                key.code \notin {"h", "H", "m", "M"}
                    => button_press(World, key, ok) = World
          /\ \A ev \in MouseEvents : mouse_event_arm(World, ev) = World

\* the dismiss key of the error box: c or C, with or without Control
DismissKeys == {[code |-> c, ctrl |-> m] : c \in {"c", "C"}, m \in BOOLEAN}

MaxInput == 1

\* capacity of the channel to the input handler
InputCap == 32

\* the world changes to w, the tasks move as the step says
TaskStep(w) ==
    /\ SetWorld(w)
    /\ UNCHANGED <<args, histVars, docker_spawned, seconds>>

\* ---- Ui::gui_loop ----

\* while self.is_running.load(..)
RenderWhile ==
    /\ render_pc = "while"
    /\ render_pc' = IF is_running THEN "draw_app" ELSE "done"
    /\ TaskStep(World)
    /\ UNCHANGED <<app_lock, gui_lock, render_local, input_pc, input_local,
                   input_tx>>

\* draw_frame: the five reads of app_data, one lock each
RenderReadApp ==
    /\ render_pc = "draw_app"
    /\ app_lock = Free
    /\ render_pc' = "draw_gui"
    /\ TaskStep(World)
    /\ UNCHANGED <<app_lock, gui_lock, render_local, input_pc, input_local,
                   input_tx>>

\* draw_frame: the reads of gui_state, one lock each; delete_confirm is kept
RenderReadGui ==
    /\ render_pc = "draw_gui"
    /\ gui_lock = Free
    /\ render_local' = [render_local EXCEPT
                           !.delete_confirm = get_delete_container(World.gui)]
    /\ render_pc' = "draw_content"
    /\ TaskStep(World)
    /\ UNCHANGED <<app_lock, gui_lock, input_pc, input_local, input_tx>>

\* draw_frame: top_menu, get_current_nav and the content panel, one lock each
RenderContent ==
    /\ render_pc = "draw_content"
    /\ app_lock = Free
    /\ gui_lock = Free
    /\ render_pc' = IF IsSome(render_local.delete_confirm)
                    THEN "delete_app" ELSE "poll"
    /\ TaskStep([World EXCEPT !.gui = nav_initialised(@)])
    /\ UNCHANGED <<app_lock, gui_lock, render_local, input_pc, input_local,
                   input_tx>>

\* draw_frame: app_data.lock() of the delete dialog; the guard lives to the
\* end of the statement
RenderDeleteLockApp ==
    /\ render_pc = "delete_app"
    /\ app_lock = Free
    /\ app_lock' = "render"
    /\ render_pc' = "delete_gui"
    /\ TaskStep(World)
    /\ UNCHANGED <<gui_lock, render_local, input_pc, input_local, input_tx>>

\* draw_frame drawing the delete dialog whether the container is there or not
RenderDeleteLockGui_keeps ==
    /\ render_pc = "delete_gui"
    /\ gui_lock = Free
    /\ app_lock' = Free
    /\ render_pc' = "poll"
    /\ TaskStep([World EXCEPT !.gui = update_region_map_delete(@)])
    /\ UNCHANGED <<gui_lock, render_local, input_pc, input_local, input_tx>>

\* draw_frame: gui_state.lock() inside map_or_else, then both guards go
RenderDeleteLockGui ==
    /\ render_pc = "delete_gui"
    /\ gui_lock = Free
    /\ app_lock' = Free
    /\ render_pc' = "poll"
    /\ TaskStep(
          IF IsSome(get_container_name_by_id(Reg,
                        Unwrap(render_local.delete_confirm)))
          THEN [World EXCEPT !.gui = update_region_map_delete(@)]
          ELSE [World EXCEPT !.gui = set_delete_container(@, None)])
    /\ UNCHANGED <<gui_lock, render_local, input_pc, input_local, input_tx>>

\* event::poll and event::read: an event of the pool when the user has
\* room to type, or none
RenderPoll(events, typing) ==
    /\ render_pc = "poll"
    /\ \E event \in {None} \cup {Some(e) : e \in events} :
          /\ IsSome(event) => typing
          /\ render_local' = [render_local EXCEPT !.delete_confirm = None,
                                                  !.event = event]
          /\ render_pc' = IF IsSome(event) THEN "send_event" ELSE "tick"
    /\ TaskStep(World)
    /\ UNCHANGED <<app_lock, gui_lock, input_pc, input_local, input_tx>>

\* self.sender.send(..).await.ok(): waits for room, fails once the handler
\* has ended
RenderSendEvent ==
    /\ render_pc = "send_event"
    /\ \/ /\ input_pc # "done"
          /\ Len(input_tx) < InputCap
          /\ input_tx' = Append(input_tx, Unwrap(render_local.event))
       \/ /\ input_pc = "done"
          /\ input_tx' = input_tx
    /\ render_local' = RenderLocal_default
    /\ render_pc' = "tick"
    /\ TaskStep(World)
    /\ UNCHANGED <<app_lock, gui_lock, input_pc, input_local>>

\* self.now.elapsed() >= update_duration
RenderTick(due) ==
    /\ render_pc = "tick"
    /\ \E elapsed \in BOOLEAN :
          /\ elapsed => due
          /\ render_pc' = IF elapsed THEN "send_update" ELSE "while"
    /\ TaskStep(World)
    /\ UNCHANGED <<app_lock, gui_lock, render_local, input_pc, input_local,
                   input_tx>>

\* self.docker_sx.send(DockerMessage::Update).await.ok(): waits for room
RenderSendUpdate ==
    /\ render_pc = "send_update"
    /\ Len(docker_tx) < DockerCap
    /\ render_pc' = "while"
    /\ TaskStep(send(World, <<"Update">>))
    /\ UNCHANGED <<app_lock, gui_lock, render_local, input_pc, input_local,
                   input_tx>>

\* ---- InputHandler::start ----

InputKey == Unwrap(input_local.message)[2]

InputNormal ==
    /\ ~input_local.contains_error
    /\ ~input_local.contains_help
    /\ ~input_local.contains_delete

\* the keys of normal mode whose arm calls a selection move, with the move
\* and the number of calls
MoveKeys ==
    [Home |-> <<"Home", 1>>, End |-> <<"End", 1>>, Up |-> <<"Up", 1>>,
     Down |-> <<"Down", 1>>, PageUp |-> <<"Up", 7>>, PageDown |-> <<"Down", 7>>]

\* the mutexes the one-statement arms of button_press lock, each for one
\* statement
arm_locks(l, key, ok) ==
    IF l.contains_error
    THEN IF key.code \in {"c", "C"} THEN {"app", "gui"} ELSE {}
    ELSE IF l.contains_help
    THEN CASE key.code \in {"h", "H"} -> {"gui"}
           [] key.code \in {"m", "M"} -> IF ok THEN {"gui"} ELSE {"app", "gui"}
           [] OTHER -> {}
    ELSE IF l.contains_delete
    THEN IF key.code \in {"n", "N"} THEN {"gui"} ELSE {}
    ELSE CASE key.code \in {"Esc", "h", "H"} -> {"gui"}
           [] key.code = "0" \/ key.code \in DOMAIN SortKeys -> {"app"}
           [] key.code \in {"m", "M"} -> IF ok THEN {"gui"} ELSE {"app", "gui"}
           [] OTHER -> {}

\* self.rec.recv().await
InputRecv ==
    /\ input_pc = "recv"
    /\ input_tx # <<>>
    /\ input_tx' = Tail(input_tx)
    /\ input_local' = [InputLocal_default EXCEPT !.message = Some(Head(input_tx))]
    /\ input_pc' = IF Head(input_tx)[1] = "ButtonPress"
                   THEN "flags" ELSE "mouse_flags"
    /\ TaskStep(World)
    /\ UNCHANGED <<app_lock, gui_lock, render_pc, render_local>>

\* button_press: the three flags, one lock each
InputFlags ==
    /\ input_pc = "flags"
    /\ gui_lock = Free
    /\ input_local' =
          [input_local EXCEPT
              !.contains_error = status_contains(World.gui, {"Error"}),
              !.contains_help = status_contains(World.gui, {"Help"}),
              !.contains_delete = status_contains(World.gui, {"DeleteConfirm"})]
    /\ input_pc' = IF is_quit(InputKey) THEN "quit" ELSE "arms"
    /\ TaskStep(World)
    /\ UNCHANGED <<app_lock, gui_lock, render_pc, render_local, input_tx>>

\* quit: error_init is read under the lock, which the let statement ends
InputQuit ==
    /\ input_pc = "quit"
    /\ gui_lock = Free
    /\ IF status_contains(World.gui, {"Error", "Init"})
       THEN /\ input_pc' = "arms"
            /\ TaskStep([World EXCEPT !.is_running = FALSE])
       ELSE /\ input_pc' = "quit_send"
            /\ TaskStep(World)
    /\ UNCHANGED <<app_lock, gui_lock, render_pc, render_local, input_local,
                   input_tx>>

\* quit: self.docker_sender.send(DockerMessage::Quit).await waits for room
InputQuitSend ==
    /\ input_pc = "quit_send"
    /\ Len(docker_tx) < DockerCap
    /\ input_pc' = "arms"
    /\ TaskStep(send(World, <<"Quit">>))
    /\ UNCHANGED <<app_lock, gui_lock, render_pc, render_local, input_local,
                   input_tx>>

\* button_press: the chain of modal arms.  Enter, the selection moves and
\* the confirmation go on in steps of their own; every other arm is one
\* statement, or two that lock one mutex each
InputArms ==
    /\ input_pc = "arms"
    /\ LET key == InputKey
       IN  IF InputNormal /\ key.code \in {"Enter", "l"}
           THEN /\ input_pc' = "enter_nav"
                /\ input_local' = input_local
                /\ TaskStep(World)
           ELSE IF InputNormal /\ key.code \in DOMAIN MoveKeys
           THEN /\ input_pc' = "move_app"
                /\ input_local' = [input_local EXCEPT
                                      !.move = MoveKeys[key.code][1],
                                      !.left = MoveKeys[key.code][2],
                                      !.after = "check"]
                /\ TaskStep(World)
           ELSE IF /\ ~input_local.contains_error
                   /\ ~input_local.contains_help
                   /\ input_local.contains_delete
                   /\ key.code \in {"y", "Y"}
           THEN /\ input_pc' = "confirm_read"
                /\ input_local' = [input_local EXCEPT !.after = "check"]
                /\ TaskStep(World)
           ELSE IF input_local.contains_error /\ key.code \in {"c", "C"}
           THEN /\ input_pc' = "dismiss_app"
                /\ input_local' = input_local
                /\ TaskStep(World)
           ELSE \E ok \in BOOLEAN :
                /\ "app" \in arm_locks(input_local, key, ok) => app_lock = Free
                /\ "gui" \in arm_locks(input_local, key, ok) => gui_lock = Free
                /\ input_pc' = "check"
                /\ input_local' = input_local
                /\ TaskStep(button_press_arms(World,
                                input_local.contains_error,
                                input_local.contains_help,
                                input_local.contains_delete, key, ok))
    /\ UNCHANGED <<app_lock, gui_lock, render_pc, render_local, input_tx>>

\* the dismiss key of the error box: self.app_data.lock().remove_error()
InputDismissApp ==
    /\ input_pc = "dismiss_app"
    /\ app_lock = Free
    /\ input_pc' = "dismiss_gui"
    /\ TaskStep([World EXCEPT !.error = None])
    /\ UNCHANGED <<app_lock, gui_lock, render_pc, render_local, input_local,
                   input_tx>>

\* the dismiss key: self.gui_state.lock().status_del(Status::Error)
InputDismissGui ==
    /\ input_pc = "dismiss_gui"
    /\ gui_lock = Free
    /\ input_pc' = "check"
    /\ TaskStep([World EXCEPT !.gui = status_del(@, "Error")])
    /\ UNCHANGED <<app_lock, gui_lock, render_pc, render_local, input_local,
                   input_tx>>

\* Enter: let current_panel = self.gui_state.lock().get_current_nav().clone()
InputEnterNav ==
    /\ input_pc = "enter_nav"
    /\ gui_lock = Free
    /\ input_pc' = IF get_current_nav(World.gui) = NavContainers
                   THEN "enter_gui" ELSE "check"
    /\ TaskStep([World EXCEPT !.gui = nav_initialised(@)])
    /\ UNCHANGED <<app_lock, gui_lock, render_pc, render_local, input_local,
                   input_tx>>

\* Enter: self.gui_state.lock(), the receiver of append_nav
InputEnterLockGui ==
    /\ input_pc = "enter_gui"
    /\ gui_lock = Free
    /\ gui_lock' = "input"
    /\ input_pc' = "enter_app"
    /\ TaskStep(World)
    /\ UNCHANGED <<app_lock, render_pc, render_local, input_local, input_tx>>

\* Enter: self.app_data.lock() in the argument of append_nav, then the
\* call, then both guards go
InputEnterLockApp ==
    /\ input_pc = "enter_app"
    /\ app_lock = Free
    /\ gui_lock' = Free
    /\ input_pc' = "check"
    /\ TaskStep([World EXCEPT !.gui =
          append_nav(@, NavLogs(IF IsSome(get_selected_container_name(Reg))
                                THEN Unwrap(get_selected_container_name(Reg))
                                ELSE <<"N", "/", "A">>))])
    /\ UNCHANGED <<app_lock, render_pc, render_local, input_local, input_tx>>

\* Home, End, next, previous: let mut locked_data = self.app_data.lock()
InputMoveLockApp ==
    /\ input_pc = "move_app"
    /\ app_lock = Free
    /\ app_lock' = "input"
    /\ input_pc' = "move_gui"
    /\ TaskStep(World)
    /\ UNCHANGED <<gui_lock, render_pc, render_local, input_local, input_tx>>

\* Home, End, next, previous: match self.gui_state.lock().get_current_nav(),
\* the move, then both guards go
InputMoveLockGui ==
    /\ input_pc = "move_gui"
    /\ gui_lock = Free
    /\ app_lock' = Free
    /\ input_local' = [input_local EXCEPT !.left = @ - 1]
    /\ input_pc' = IF input_local.left > 1 THEN "move_app"
                   ELSE input_local.after
    /\ TaskStep(CASE input_local.move = "Up" -> previous(World)
                  [] input_local.move = "Down" -> next(World)
                  [] OTHER -> normal_mode(World,
                                 [code |-> input_local.move, ctrl |-> FALSE],
                                 TRUE))
    /\ UNCHANGED <<gui_lock, render_pc, render_local, input_tx>>

\* confirm_delete with the id matched in the scrutinee of the if let, whose
\* guard lives through the send
InputConfirmRead_guard_kept ==
    /\ input_pc = "confirm_read"
    /\ gui_lock = Free
    /\ gui_lock' = IF IsSome(get_delete_container(World.gui))
                   THEN "input" ELSE Free
    /\ input_local' = [input_local EXCEPT !.id = get_delete_container(World.gui)]
    /\ input_pc' = IF IsSome(get_delete_container(World.gui))
                   THEN "confirm_send" ELSE input_local.after
    /\ TaskStep(World)
    /\ UNCHANGED <<app_lock, render_pc, render_local, input_tx>>

\* confirm_delete: id is read under the lock, which the let statement ends
InputConfirmRead ==
    /\ input_pc = "confirm_read"
    /\ gui_lock = Free
    /\ input_local' = [input_local EXCEPT !.id = get_delete_container(World.gui)]
    /\ input_pc' = IF IsSome(get_delete_container(World.gui))
                   THEN "confirm_send" ELSE input_local.after
    /\ TaskStep(World)
    /\ UNCHANGED <<app_lock, gui_lock, render_pc, render_local, input_tx>>

\* confirm_delete: self.docker_sender.send(DockerMessage::Delete(id)).await
\* waits for room
InputConfirmSend ==
    /\ input_pc = "confirm_send"
    /\ Len(docker_tx) < DockerCap
    /\ input_pc' = input_local.after
    /\ TaskStep(send(World, <<"Delete", Unwrap(input_local.id)>>))
    /\ UNCHANGED <<app_lock, gui_lock, render_pc, render_local, input_local,
                   input_tx>>

\* start, MouseEvent arm: error_or_help
InputMouseFlags ==
    /\ input_pc = "mouse_flags"
    /\ gui_lock = Free
    /\ input_pc' = IF status_contains(World.gui,
                          {"Error", "Help", "DeleteConfirm"})
                   THEN "mouse_delete" ELSE "mouse_press"
    /\ TaskStep(World)
    /\ UNCHANGED <<app_lock, gui_lock, render_pc, render_local, input_local,
                   input_tx>>

\* mouse_press: a scroll is a selection move; a left click looks up the
\* headers, of which none is registered, and the panels
InputMousePress ==
    /\ input_pc = "mouse_press"
    /\ LET kind == InputKey.kind
       IN  IF kind \in {"ScrollUp", "ScrollDown"}
           THEN /\ input_pc' = "move_app"
                /\ input_local' = [input_local EXCEPT
                       !.move = IF kind = "ScrollUp" THEN "Up" ELSE "Down",
                       !.left = 1, !.after = "mouse_delete"]
           ELSE /\ kind = "DownLeft" => gui_lock = Free
                /\ input_pc' = "mouse_delete"
                /\ input_local' = input_local
    /\ TaskStep(World)
    /\ UNCHANGED <<app_lock, gui_lock, render_pc, render_local, input_tx>>

\* start, MouseEvent arm: delete_confirm
InputMouseDelete ==
    /\ input_pc = "mouse_delete"
    /\ gui_lock = Free
    /\ input_pc' = IF status_contains(World.gui, {"DeleteConfirm"})
                   THEN "intersect" ELSE "check"
    /\ TaskStep(World)
    /\ UNCHANGED <<app_lock, gui_lock, render_pc, render_local, input_local,
                   input_tx>>

\* button_intersect: the button under a left click; Yes goes on to
\* confirm_delete, No is clear_delete
InputButtonIntersect ==
    /\ input_pc = "intersect"
    /\ LET button == IF InputKey.kind = "DownLeft"
                     THEN button_intersect_lookup(World.gui, InputKey.hit)
                     ELSE None
       IN  /\ InputKey.kind = "DownLeft" => gui_lock = Free
           /\ input_pc' = IF button = Some("Yes") THEN "confirm_read"
                          ELSE "check"
           /\ input_local' = [input_local EXCEPT !.after = "check"]
           /\ TaskStep(IF button = Some("No") THEN clear_delete(World)
                       ELSE World)
    /\ UNCHANGED <<app_lock, gui_lock, render_pc, render_local, input_tx>>

\* start: if !self.is_running.load(..) { break }
InputCheck ==
    /\ input_pc = "check"
    /\ input_pc' = IF is_running THEN "recv" ELSE "done"
    /\ input_local' = InputLocal_default
    /\ TaskStep(World)
    /\ UNCHANGED <<app_lock, gui_lock, render_pc, render_local, input_tx>>

\* ---- the orchestrator's end of the two mutexes and of the channel ----

\* the snapshots of a run of the tasks: no container, or one
TaskSnaps == {<<>>, <<StatsSnapshot[1]>>}

\* the orchestrator reconciles the registry under the lock of app_data
OrchReconcile ==
    /\ docker_spawned
    /\ app_lock = Free
    /\ Reconcile(TaskSnaps)

\* the orchestrator asks for the confirmation of a delete under the lock of
\* gui_state
OrchConfirmDelete ==
    /\ docker_spawned
    /\ gui_lock = Free
    /\ ConfirmDeleteContainer

\* the orchestrator receives a message: Quit clears the run flag, an Update
\* starts a poll, a Delete that fails sets the error and the Error status,
\* one lock each
OrchRecv ==
    /\ docker_spawned
    /\ docker_tx # <<>>
    /\ LET taken == [World EXCEPT !.docker_tx = Tail(@)]
       IN  CASE Head(docker_tx) = <<"Quit">> ->
                   TaskStep([taken EXCEPT !.is_running = FALSE])
             [] Head(docker_tx) = <<"Update">> -> TaskStep(taken)
             [] OTHER ->
                   \E ok \in BOOLEAN :
                      /\ ~ok => (app_lock = Free /\ gui_lock = Free)
                      /\ TaskStep(IF ok THEN taken
                                  ELSE [taken EXCEPT
                                          !.error = Some(<<"DockerCommand", "Delete">>),
                                          !.gui = status_push(@, "Error")])
    /\ UNCHANGED taskVars

\* ---- SpecTasks ----

\* the events of a run: a key of every multi-step arm, the keys that leave
\* the delete dialog and the error, the quit key and a click on the Yes
\* button
TaskEvents ==
    {<<"ButtonPress", [code |-> c, ctrl |-> FALSE]>> :
        c \in {"Enter", "Down", "y", "n", "q", "c"}}
    \cup {<<"MouseEvent", [kind |-> "DownLeft", hit |-> Some("Yes")]>>}

\* the user and the timer wait while messages are waiting
TaskRoom == Len(input_tx) < MaxInput /\ Len(docker_tx) < MaxQueued

InitTasks == Init

\* the steps of gui_loop without a delete dialog, but the two the user and
\* the timer decide
RenderPlain ==
    \/ RenderWhile
    \/ RenderReadApp
    \/ RenderReadGui
    \/ RenderContent
    \/ RenderSendEvent
    \/ RenderSendUpdate

\* the steps of gui_loop but the two the user and the timer decide
RenderSteps ==
    \/ RenderPlain
    \/ RenderDeleteLockApp
    \/ RenderDeleteLockGui

\* the steps of start for a quit key
QuitSteps ==
    \/ InputRecv
    \/ InputFlags
    \/ InputQuit
    \/ InputQuitSend
    \/ InputArms
    \/ InputCheck

\* the steps of start
InputSteps ==
    \/ QuitSteps
    \/ InputEnterNav
    \/ InputEnterLockGui
    \/ InputEnterLockApp
    \/ InputMoveLockApp
    \/ InputMoveLockGui
    \/ InputDismissApp
    \/ InputDismissGui
    \/ InputConfirmRead
    \/ InputConfirmSend
    \/ InputMouseFlags
    \/ InputMousePress
    \/ InputMouseDelete
    \/ InputButtonIntersect

NextTasks ==
    \/ RenderSteps
    \/ RenderPoll(TaskEvents, TaskRoom)
    \/ RenderTick(TaskRoom)
    \/ InputSteps
    \/ OrchReconcile
    \/ OrchConfirmDelete
    \/ OrchRecv

SpecTasks == InitTasks /\ [][NextTasks]_vars

\* the task holds the lock of app_data and its next step locks gui_state
HoldsAppWaitsGui(task) ==
    /\ app_lock = task
    /\ \/ task = "render" /\ render_pc = "delete_gui"
       \/ task = "input" /\ input_pc = "move_gui"

\* the task holds the lock of gui_state and its next step locks app_data
HoldsGuiWaitsApp(task) ==
    /\ gui_lock = task
    /\ task = "input" /\ input_pc = "enter_app"

\* C16: no state is reached where one activity holds the lock of app_data
\* and waits for the lock of gui_state while another holds the lock of
\* gui_state and waits for the lock of app_data
C16_NoLockDeadlock ==
    \A t, u \in {"render", "input"} :
        ~(HoldsAppWaitsGui(t) /\ HoldsGuiWaitsApp(u))

\* the places where the input handler and the render loop await
InputSuspended == input_pc \in {"recv", "quit_send", "confirm_send"}
RenderSuspended == render_pc \in {"send_event", "send_update"}

\* C17: where the input handler or the render loop awaits a send or a
\* receive, it holds neither mutex
C17_NoLockAcrossAwait ==
    /\ InputSuspended => (app_lock # "input" /\ gui_lock # "input")
    /\ RenderSuspended => (app_lock # "render" /\ gui_lock # "render")

\* the input handler awaits the send of the Delete it read the id of under
\* the lock, and the render loop awaits a send after a frame with the
\* delete dialog
C17_Witness ==
    /\ input_pc = "confirm_send"
    /\ IsSome(input_local.id)
    /\ render_pc = "send_update"
    /\ "DeleteConfirm" \in gui_status
    /\ app_lock = Free
    /\ gui_lock = Free

(***************************************************************************)
(* SpecQueue: the render loop sends an Update whenever the interval has    *)
(* elapsed, the orchestrator receives when it can, and the user presses    *)
(* the quit key once the channel to the orchestrator is about to be full.  *)
(***************************************************************************)

QuitEvent == <<"ButtonPress", [code |-> "q", ctrl |-> FALSE]>>

\* the user presses quit when one slot or none is left and no Quit waits
QuitTyping ==
    /\ Len(input_tx) < MaxInput
    /\ Len(docker_tx) + 1 >= DockerCap
    /\ \A k \in 1..Len(docker_tx) : docker_tx[k] # <<"Quit">>

QueuePoll == RenderPoll({QuitEvent}, QuitTyping)

QueueTick == RenderTick(TRUE)

NextQueue ==
    \/ RenderPlain
    \/ QueuePoll
    \/ QueueTick
    \/ QuitSteps
    \/ OrchRecv

SpecQueue == InitTasks /\ [][NextQueue]_vars

\* the render loop and the input handler take a step whenever one is
\* possible; the orchestrator receives when the container runtime lets it
SpecQueueFair ==
    /\ SpecQueue
    /\ WF_vars(RenderPlain)
    /\ WF_vars(QueuePoll)
    /\ WF_vars(QueueTick)
    /\ WF_vars(QuitSteps)

\* C18: a sender that has reached its send to the orchestrator can take the
\* step at once, however many messages wait in the channel
C18_SendNeverBlocks ==
    /\ render_pc = "send_update" => ENABLED RenderSendUpdate
    /\ input_pc = "quit_send" => ENABLED InputQuitSend
    /\ input_pc = "confirm_send" => ENABLED InputConfirmSend

docker_init(w, connected, pinged) ==
    IF connected /\ pinged THEN w
    ELSE [w EXCEPT !.error = Some(<<"DockerConnect">>),
                   !.gui = status_push(@, "DockerConnect")]

DockerInit ==
    /\ render_pc = "docker_init"
    /\ \E connected, pinged \in BOOLEAN :
          /\ SetWorld(docker_init(World, connected, pinged))
          /\ docker_spawned' = (connected /\ pinged)
    /\ render_pc' = "draw_ui"
    /\ UNCHANGED <<args, histVars, app_lock, gui_lock, render_local, input_pc,
                   input_local, input_tx, seconds>>

\* Ui::draw_ui that enters gui_loop whatever the status
DrawUi_enters_loop ==
    /\ render_pc = "draw_ui"
    /\ gui_lock = Free
    /\ render_pc' = "while"
    /\ SetWorld(World)
    /\ UNCHANGED <<args, histVars, app_lock, gui_lock, render_local, input_pc,
                   input_local, input_tx, docker_spawned, seconds>>

\* Ui::draw_ui: err_loop if the status contains DockerConnect, else gui_loop
DrawUi ==
    /\ render_pc = "draw_ui"
    /\ gui_lock = Free
    /\ render_pc' = IF status_contains(World.gui, {"DockerConnect"})
                    THEN "err_loop" ELSE "while"
    /\ SetWorld(World)
    /\ UNCHANGED <<args, histVars, app_lock, gui_lock, render_local, input_pc,
                   input_local, input_tx, docker_spawned, seconds>>

\* Ui::err_loop, one turn: a second has elapsed or not, the frame is drawn
\* or the terminal fails
ErrLoop ==
    /\ render_pc = "err_loop"
    /\ \E elapsed, drawn \in BOOLEAN :
          /\ seconds' = IF elapsed THEN seconds - 1 ELSE seconds
          /\ render_pc' = IF seconds' < 1 THEN "done"
                          ELSE IF drawn THEN "err_loop" ELSE "failed"
    /\ SetWorld(World)
    /\ UNCHANGED <<args, histVars, app_lock, gui_lock, render_local, input_pc,
                   input_local, input_tx, docker_spawned>>

InitStart ==
    /\ items = ContainerData_new.items
    /\ selected = ContainerData_new.selected
    /\ sorted_by = ContainerData_new.sorted_by
    /\ args = [color |-> FALSE, raw |-> FALSE, timestamp |-> TRUE]
    /\ stat_calls = <<>>
    /\ log_calls = <<>>
    /\ GuiStateInit
    /\ TaskInitAt("docker_init", FALSE)

NextStart ==
    \/ DockerInit
    \/ DrawUi
    \/ ErrLoop
    \/ NextQueue

SpecStart == InitStart /\ [][NextStart]_vars

\* C21: once docker_init has failed to connect or to ping, the error is the
\* connect error, the status contains DockerConnect, no orchestrator runs,
\* main is in draw_ui or err_loop or has ended, having ended after the
\* whole countdown unless the terminal failed, and gui_loop has sent nothing
C21_ConnectFailureIsFatal ==
    (render_pc # "docker_init" /\ ~docker_spawned) =>
        /\ error = Some(<<"DockerConnect">>)
        /\ "DockerConnect" \in gui_status
        /\ render_pc \in {"draw_ui", "err_loop", "done", "failed"}
        /\ render_pc = "done" => seconds = 0
        /\ docker_tx = <<>>
        /\ input_tx = <<>>

\* the countdown has run to its end after a failed connection
C21_Witness ==
    /\ ~docker_spawned
    /\ render_pc = "done"
    /\ seconds = 0
    /\ error = Some(<<"DockerConnect">>)

(***************************************************************************)
(* Properties of the registry                                              *)
(***************************************************************************)
\* C1: after any sequence of registry operations the container selection is
\* None or an index smaller than the number of items, and it is None
\* whenever the item list is empty.
C1_SelectionValid ==
    /\ selected = None \/ Unwrap(selected) < Len(items)
    /\ items = <<>> => selected = None

\* C2: after reconcile(S) the set of ids in the registry equals the set of
\* ids in S, for every reachable registry and every snapshot S.
C2_IdsAreSnapshotIds ==
    \A s \in Snapshots :
        ItemIds(update_containers(Reg, s).items) = SnapshotIds(s)

\* C3: reconcile leaves the cpu history, the mem history and the log store
\* of every item that is in the registry and in the snapshot as they were.
C3_HistoryKept ==
    \A s \in Snapshots :
        \A k \in 1..Len(items) :
            items[k].id \in SnapshotIds(s) =>
                LET after == update_containers(Reg, s).items
                IN  /\ items[k].id \in ItemIds(after)
                    /\ ItemOf(after, items[k].id).cpu_stats = items[k].cpu_stats
                    /\ ItemOf(after, items[k].id).mem_stats = items[k].mem_stats
                    /\ ItemOf(after, items[k].id).logs = items[k].logs

\* C4: reconcile is idempotent: reconcile(S) twice yields the same item
\* list and selection as reconcile(S) once.
C4_Idempotent ==
    \A s \in Snapshots :
        update_containers(update_containers(Reg, s), s) = update_containers(Reg, s)

\* C5: no two items of the registry have the same ContainerId, in every
\* reachable state and after a reconcile with any snapshot, also one that
\* lists an id more than once.
C5_UniqueIds ==
    /\ UniqueIds(items)
    /\ \A s \in Snapshots : UniqueIds(update_containers(Reg, s).items)

\* a registry of two items with histories and logs, reconciled with a
\* snapshot that lists a new id twice and a known id once
C5_Witness ==
    /\ Len(items) = 2
    /\ \E k \in 1..Len(items) : items[k].cpu_stats # <<>>
    /\ \E k \in 1..Len(items) : items[k].logs.items # <<>>
    /\ \E s \in Snapshots :
          /\ HasDuplicateId(s)
          /\ Len(s) = 3
          /\ s[1].id = s[2].id
          /\ {s[k].id : k \in 1..3} = {Some(<<"a">>), Some(<<"c">>)}
          /\ ItemIds(update_containers(Reg, s).items) = {<<"a">>, <<"c">>}

C10_SelectionSurvivesSort ==
    IsSome(get_selected_container_id(Reg)) =>
        /\ \A h \in Headers :
              get_selected_container_id(set_sort_by_header(Reg, h))
                  = get_selected_container_id(Reg)
        /\ get_selected_container_id(reset_sorted(Reg))
              = get_selected_container_id(Reg)

\* C11: when the selected item is not in the snapshot, after the reconcile
\* that item is gone and the selection is the index before it (index 0 when
\* it was first), or None when the registry became empty
C11_RemovalReseats ==
    \A s \in Snapshots :
        ( /\ IsSome(get_selected_container_id(Reg))
          /\ Unwrap(get_selected_container_id(Reg)) \notin SnapshotIds(s) )
        => LET after == update_containers(Reg, s)
           IN  /\ Unwrap(get_selected_container_id(Reg))
                     \notin ItemIds(after.items)
               /\ after.selected =
                     IF after.items = <<>> THEN None
                     ELSE IF Unwrap(selected) = 0 THEN Some(0)
                     ELSE Some(Unwrap(selected) - 1)

\* C13: when the id of the selected container is in the snapshot, the
\* container selected after the reconcile has that id
C13_SelectionFollowsId ==
    \A s \in Snapshots :
        ( /\ IsSome(get_selected_container_id(Reg))
          /\ Unwrap(get_selected_container_id(Reg)) \in SnapshotIds(s) )
        => get_selected_container_id(update_containers(Reg, s))
              = get_selected_container_id(Reg)

\* the ids of its, in order, that are also in ids
RECURSIVE KeptIds(_, _)
KeptIds(its, ids) ==
    IF its = <<>> THEN <<>>
    ELSE IF Head(its).id \in ids
         THEN <<Head(its).id>> \o KeptIds(Tail(its), ids)
         ELSE KeptIds(Tail(its), ids)

\* the items that are in both lists are in the same relative order in both
OrderKept(before, after) ==
    KeptIds(before, ItemIds(after)) = KeptIds(after, ItemIds(before))

\* every item of after that is not in before comes after all that are
NewItemsLast(before, after) ==
    \A j, k \in 1..Len(after) :
        ( /\ after[j].id \notin ItemIds(before)
          /\ after[k].id \in ItemIds(before) ) => k < j

\* C12: a reconcile keeps the relative order of the items that are in the
\* registry before and after it and puts the new items after all others;
\* update_stats and update_log_by_id, which are no sort requests, keep the
\* order of the items as well
C12_OrderKept ==
    /\ \A s \in Snapshots :
          /\ OrderKept(items, update_containers(Reg, s).items)
          /\ NewItemsLast(items, update_containers(Reg, s).items)
    /\ \A st \in StatPool :
          OrderKept(items,
              update_stats(Reg, <<"a">>, st[1], st[2], st[3], st[4], st[5]).items)
    /\ \A b \in RegLogBatches :
          OrderKept(items, update_log_by_id(Reg, b, <<"b">>, args).items)

\* C22: update_stats with an id that no item has leaves the registry as it
\* is: the items and their order, the histories and counters, the selection
C22_UnknownIdNoOp ==
    \A st \in StatPool :
        update_stats(Reg, <<"z">>, st[1], st[2], st[3], st[4], st[5]) = Reg

\* update_stats for id with the sample st
StatsOf(reg, id, st) == update_stats(reg, id, st[1], st[2], st[3], st[4], st[5])

\* C23: two update_stats calls for the distinct ids a and b give the same
\* registry in either order: the same items in the same order, the same
\* selected container
C23_StatsCommute ==
    \A st1, st2 \in StatPool :
        LET ab == StatsOf(StatsOf(Reg, <<"a">>, st1), <<"b">>, st2)
            ba == StatsOf(StatsOf(Reg, <<"b">>, st2), <<"a">>, st1)
        IN  /\ ab.items = ba.items
            /\ get_selected_container_id(ab) = get_selected_container_id(ba)

\* C24: a press of the mouse-capture key whose terminal command fails leaves
\* the recorded capture state as it was
C24_FailedToggleKeepsCapture ==
    \A code \in {"m", "M"} :
        button_press(World, [code |-> code, ctrl |-> FALSE], FALSE).mouse_capture
            = mouse_capture

(***************************************************************************)
(* Chart data and the display of byte counts                               *)
(* Byte counts are kept in units of 10 bytes, so that a limit of 4 GB is   *)
(* an integer TLC can hold; cpu samples are in CpuUnits of 0.005 %.        *)
(***************************************************************************)
\* const ONE_KB, in units of 10 bytes
ONE_KB == 100
\* const ONE_MB
ONE_MB == ONE_KB * 1000
\* const ONE_GB
ONE_GB == ONE_MB * 1000

DigitChar(d) == Digits[d + 1]

\* the decimal digits of n, most significant first
RECURSIVE DecDigits(_)
DecDigits(n) ==
    IF n < 10 THEN <<DigitChar(n)>>
    ELSE Append(DecDigits(n \div 10), DigitChar(n % 10))

\* n / d rounded to the nearest integer, a tie going to the even neighbour
\* (the quotient is a binary float in the code, so the side an exact tie
\* falls on depends on its representation)
RoundDiv(n, d) ==
    LET q == n \div d
        r == n % d
    IN  IF 2 * r > d THEN q + 1
        ELSE IF 2 * r < d THEN q
        ELSE IF q % 2 = 0 THEN q ELSE q + 1

\* format!("{y:.2}") of a value given in hundredths
Fmt2(h) ==
    DecDigits(h \div 100) \o <<".">> \o <<DigitChar((h % 100) \div 10), DigitChar(h % 10)>>

\* "{p:>x$}": p right-aligned in a field of x characters
PadLeft(p, x) ==
    IF Len(p) >= x THEN p ELSE [i \in 1..(x - Len(p)) |-> " "] \o p

\* impl Display for ByteStats, every value shown in kB
ByteStats_fmt_kB_only(v, width) ==
    PadLeft(Fmt2(RoundDiv(v * 100, ONE_KB)) \o <<" ", "k", "B">>, width)

\* impl Display for ByteStats; width is f.width().unwrap_or(1)
ByteStats_fmt(v, width) ==
    LET p == IF v >= ONE_GB
             THEN Fmt2(RoundDiv(v, ONE_GB \div 100)) \o <<" ", "G", "B">>
             ELSE IF v >= ONE_MB
             THEN Fmt2(RoundDiv(v, ONE_MB \div 100)) \o <<" ", "M", "B">>
             ELSE Fmt2(RoundDiv(v * 100, ONE_KB)) \o <<" ", "k", "B">>
    IN  PadLeft(p, width)

\* Iterator::max with CpuStats::cmp: the later element unless the earlier
\* one compares Greater
RECURSIVE MaxCpuFold(_, _)
MaxCpuFold(acc, q) ==
    IF q = <<>> THEN acc
    ELSE MaxCpuFold(IF CpuStats_cmp(acc, Head(q)) = "Greater" THEN acc ELSE Head(q),
                    Tail(q))

\* Iterator::max with ByteStats::cmp
RECURSIVE MaxMemFold(_, _)
MaxMemFold(acc, q) ==
    IF q = <<>> THEN acc
    ELSE MaxMemFold(IF ByteStats_cmp(acc, Head(q)) = "Greater" THEN acc ELSE Head(q),
                    Tail(q))

\* max_cpu_stats returning the most recent sample
max_cpu_stats_latest(item) ==
    IF item.cpu_stats = <<>> THEN 0 ELSE item.cpu_stats[Len(item.cpu_stats)]

\* ContainerItem::max_cpu_stats
max_cpu_stats(item) ==
    IF item.cpu_stats = <<>> THEN 0
    ELSE MaxCpuFold(Head(item.cpu_stats), Tail(item.cpu_stats))

\* ContainerItem::max_mem_stats
max_mem_stats(item) ==
    IF item.mem_stats = <<>> THEN 0
    ELSE MaxMemFold(Head(item.mem_stats), Tail(item.mem_stats))

\* ContainerItem::get_cpu_dataset
get_cpu_dataset(item) ==
    [i \in 1..Len(item.cpu_stats) |-> <<i - 1, item.cpu_stats[i]>>]

\* ContainerItem::get_mem_dataset
get_mem_dataset(item) ==
    [i \in 1..Len(item.mem_stats) |-> <<i - 1, item.mem_stats[i]>>]

\* ContainerItem::get_chart_data
ContainerItem_get_chart_data(item) ==
    << <<get_cpu_dataset(item), max_cpu_stats(item), item.state>>,
       <<get_mem_dataset(item), max_mem_stats(item), item.state>> >>

\* ContainerData::get_chart_data
get_chart_data(reg) ==
    IF IsSome(reg.selected) /\ Unwrap(reg.selected) < Len(reg.items)
    THEN Some(ContainerItem_get_chart_data(reg.items[Unwrap(reg.selected) + 1]))
    ELSE None

(***************************************************************************)
(* SpecChart: one running container c1, update_stats called for it with    *)
(* samples of every magnitude                                              *)
(***************************************************************************)
\* number of update_stats calls in a run
MaxChart == 2

ChartId == <<"c", "1">>

ChartSnapshot ==
    << [id |-> Some(ChartId), names |-> Some(<< <<"/", "c", "1">> >>),
        image |-> Some(<<"i">>), state |-> Some(sRunning),
        status |-> Some(<<"u", "p">>), created |-> Some(100)] >>

\* cpu samples: 12.5 %, 12.495 %, 0 %, or none
ChartCpuPool == {None, Some(2500), Some(2499), Some(0)}

\* mem samples: 2 000 000 bytes, 500 bytes, 1 234 567 890 bytes, or none
ChartMemPool == {None, Some(200000), Some(50), Some(123456789)}

\* mem limits: 4 000 000 000 bytes and 999 999 990 bytes
ChartLimitPool == {400000000, 99999999}

InitChart ==
    /\ SetRegInit(update_containers(ContainerData_new, ChartSnapshot))
    /\ args = [color |-> FALSE, raw |-> FALSE, timestamp |-> TRUE]
    /\ stat_calls = <<>>
    /\ log_calls = <<>>
    /\ GuiInit

ChartUpdateStats ==
    /\ Len(stat_calls) < MaxChart
    /\ \E cpu \in ChartCpuPool, mem \in ChartMemPool, limit \in ChartLimitPool :
          /\ SetReg(update_stats(Reg, ChartId, cpu, mem, limit, 10, 20))
          /\ stat_calls' = Append(stat_calls, <<cpu, mem>>)
    /\ UNCHANGED <<args, log_calls, guiVars, taskVars>>

NextChart == ChartUpdateStats

SpecChart == InitChart /\ [][NextChart]_vars

DigitVal(c) == CHOOSE d \in 0..9 : DigitChar(d) = c

\* the number written by the digits of s, its decimal point left out
RECURSIVE ParseDigits(_)
ParseDigits(s) ==
    IF s = <<>> THEN 0
    ELSE IF s[Len(s)] = "." THEN ParseDigits(SubSeq(s, 1, Len(s) - 1))
    ELSE ParseDigits(SubSeq(s, 1, Len(s) - 1)) * 10 + DigitVal(s[Len(s)])

\* s is the byte count v written in the unit of its magnitude: two
\* decimals, a space and the unit, the number being v / unit to the nearest
\* hundredth
FormattedByMagnitude(s, v) ==
    LET unit == IF v >= ONE_GB THEN ONE_GB ELSE IF v >= ONE_MB THEN ONE_MB ELSE ONE_KB
        name == IF v >= ONE_GB THEN "G" ELSE IF v >= ONE_MB THEN "M" ELSE "k"
        num  == SubSeq(s, 1, Len(s) - 3)
        h    == ParseDigits(num)
    IN  /\ Len(s) >= 7
        /\ SubSeq(s, Len(s) - 2, Len(s)) = <<" ", name, "B">>
        /\ num[Len(num) - 2] = "."
        /\ IF unit = ONE_KB THEN h * ONE_KB = v * 100
           ELSE 2 * Abs(h * (unit \div 100) - v) <= unit \div 100

\* the scenario: one update_stats with cpu = 12.5, mem = 2 000 000 and
\* mem_limit = 4 000 000 000
ChartScenario ==
    /\ stat_calls = << <<Some(2500), Some(200000)>> >>
    /\ items[1].mem_limit = 400000000

\* C25 (as amended): for the selected item the chart data is the cpu
\* history as pairs (position, value), positions 0..len-1 in push order,
\* with the maximum sample of the window, and byte counts are formatted by
\* magnitude; in the scenario the series is [(0, 12.5)], the max is 12.5,
\* memory formats as "2.00 MB" and the limit as "4.00 GB".
C25_ChartData ==
    LET sel == get_selected_container(Reg)
        cd == get_chart_data(Reg)
    IN  IsSome(sel) =>
          /\ IsSome(cd)
          /\ LET it == Unwrap(sel)
                 series == Unwrap(cd)[1][1]
                 max == Unwrap(cd)[1][2]
                 pushed == CpuPushed(stat_calls)
             IN  /\ Len(series) = Len(pushed)
                 /\ \A i \in 1..Len(series) : series[i] = <<i - 1, pushed[i]>>
                 /\ \A i \in 1..Len(pushed) : max >= pushed[i]
                 /\ IF pushed = <<>> THEN max = 0
                    ELSE \E i \in 1..Len(pushed) : max = pushed[i]
                 /\ \A i \in 1..Len(it.mem_stats) :
                       FormattedByMagnitude(ByteStats_fmt(it.mem_stats[i], 1),
                                            it.mem_stats[i])
                 /\ FormattedByMagnitude(ByteStats_fmt(it.mem_limit, 1), it.mem_limit)
                 /\ ChartScenario =>
                       /\ series = << <<0, 2500>> >>
                       /\ max = 2500
                       /\ ByteStats_fmt(it.mem_stats[1], 1)
                             = <<"2", ".", "0", "0", " ", "M", "B">>
                       /\ ByteStats_fmt(it.mem_limit, 1)
                             = <<"4", ".", "0", "0", " ", "G", "B">>

\* two samples pushed, the larger one first, and a memory sample of each
\* magnitude on display
C25_Witness ==
    /\ selected = Some(0)
    /\ items[1].cpu_stats = <<2500, 0>>
    /\ items[1].mem_stats = <<123456789, 50>>
    /\ ByteStats_fmt(items[1].mem_stats[1], 1) = <<"1", ".", "2", "3", " ", "G", "B">>
    /\ ByteStats_fmt(items[1].mem_stats[2], 1) = <<"0", ".", "5", "0", " ", "k", "B">>
    /\ ByteStats_fmt(items[1].mem_limit, 1)
          \in { <<"4", ".", "0", "0", " ", "G", "B">>,
                <<"1", "0", "0", "0", ".", "0", "0", " ", "M", "B">> }

\* C25 as stated: in the scenario memory formats as "2.00 kB"
C25_ScenarioAsStated ==
    ChartScenario =>
        /\ Unwrap(get_chart_data(Reg))[1][1] = << <<0, 2500>> >>
        /\ Unwrap(get_chart_data(Reg))[1][2] = 2500
        /\ ByteStats_fmt(items[1].mem_stats[1], 1)
              = <<"2", ".", "0", "0", " ", "k", "B">>
        /\ ByteStats_fmt(items[1].mem_limit, 1)
              = <<"4", ".", "0", "0", " ", "G", "B">>

\* C26: a reconcile of an empty registry with a non-empty snapshot leaves
\* the items in ascending order of creation time and the selection at
\* index 0; a reconcile with no selection and a non-empty snapshot leaves
\* the selection at index 0.
C26_FirstReconcile ==
    \A s \in Snapshots :
        s # <<>> =>
            LET r == update_containers(Reg, s)
            IN  /\ items = <<>> =>
                      /\ \A k \in 1..(Len(r.items) - 1) :
                            r.items[k].created <= r.items[k + 1].created
                      /\ r.selected = Some(0)
                /\ selected = None => r.selected = Some(0)

\* the empty registry without a selection, for which a snapshot that lists
\* a (created 2) before b (created 1) gives the items b, a
C26_Witness ==
    /\ items = <<>>
    /\ selected = None
    /\ \E s \in Snapshots :
          /\ Len(s) = 2
          /\ s[1].id = Some(<<"a">>)
          /\ s[2].id = Some(<<"b">>)
          /\ LET r == update_containers(Reg, s)
             IN  /\ Len(r.items) = 2
                 /\ r.items[1].id = <<"b">>
                 /\ r.items[2].id = <<"a">>
                 /\ r.selected = Some(0)

\* the items are in the order of sort state sb: no item is less than the
\* one before it under the comparator of sb
InSortOrder(its, sb) ==
    \A k \in 1..(Len(its) - 1) : Compare(its[k + 1], its[k], sb) # "Less"

\* C27: while a sort (header, direction) is active, after every reconcile
\* the item list is in the order of that sort, items appended or patched by
\* the call included.
C27_ReconcileKeepsSort ==
    \A s \in Snapshots :
        sorted_by # None => InSortOrder(update_containers(Reg, s).items, sorted_by)

(***************************************************************************)
(* SpecSort: three containers that differ in every column, stats for two   *)
(* of them, and the sort cycled through all nine headers                   *)
(***************************************************************************)
\* longest cpu or mem history this specification lets grow
MaxSortHist == 1

SortSnapshot ==
    << [id |-> Some(<<"a">>), names |-> Some(<< <<"/", "w">> >>),
        image |-> Some(<<"j">>), state |-> Some(sRunning),
        status |-> Some(<<"u", "p">>), created |-> Some(2)],
       [id |-> Some(<<"b">>), names |-> Some(<< <<"d">> >>),
        image |-> Some(<<"i">>), state |-> Some(sExited),
        status |-> Some(<<"e", "x">>), created |-> Some(1)],
       [id |-> Some(<<"c">>), names |-> Some(<< <<"m">> >>),
        image |-> Some(<<"i">>), state |-> Some(sPaused),
        status |-> Some(<<"u", "p">>), created |-> Some(3)] >>

\* the containers the stats come for; b stays without a sample
SortIds == {<<"a">>, <<"c">>}

\* stat samples (cpu, mem, mem_limit, rx, tx): both present, a cpu sample
\* of 0 alone, a mem sample of 0 alone
SortStatPool ==
    { <<Some(3), Some(5), 9, 1, 2>>,
      <<Some(0), None, 9, 0, 0>>,
      <<None, Some(0), 9, 3, 1>> }

InitSort ==
    /\ SetRegInit(update_containers(ContainerData_new, SortSnapshot))
    /\ args = [color |-> FALSE, raw |-> FALSE, timestamp |-> TRUE]
    /\ stat_calls = <<>>
    /\ log_calls = <<>>
    /\ GuiInit

NextSort ==
    \/ SetSort(Headers)
    \/ ResetSort
    \/ UpdateStats(SortIds, SortStatPool, MaxSortHist)

SpecSort == InitSort /\ [][NextSort]_vars

Directions == {"Asc", "Desc"}

\* the items after sort_containers under the sort state sb
SortedUnder(sb) == sort_containers([Reg EXCEPT !.sorted_by = sb]).items

\* C28: sorting by the State header in direction Asc orders the items by
\* ascending health precedence (Running first, Unknown last), and direction
\* Desc orders them by descending precedence.
C28_StateSort ==
    /\ LET its == SortedUnder(Some(<<"State", "Asc">>))
       IN  \A k \in 1..(Len(its) - 1) :
              State_order(its[k].state) <= State_order(its[k + 1].state)
    /\ LET its == SortedUnder(Some(<<"State", "Desc">>))
       IN  \A k \in 1..(Len(its) - 1) :
              State_order(its[k].state) >= State_order(its[k + 1].state)

\* how often x occurs in the sequence q
Count(q, x) == Cardinality({k \in 1..Len(q) : q[k] = x})

\* p holds the elements of q, each as often as q does
Permutation(p, q) ==
    /\ Len(p) = Len(q)
    /\ \A k \in 1..Len(q) : Count(p, q[k]) = Count(q, q[k])

\* the most recent memory sample, 0 for an empty history
LatestMem(item) ==
    IF item.mem_stats = <<>> THEN 0 ELSE item.mem_stats[Len(item.mem_stats)]

\* x comes no later than y by the field the header names
FieldLeq(head, x, y) ==
    CASE head = "Status" -> StrCmp(x.status, y.status) # "Greater"
      [] head = "Id" -> StrCmp(x.id, y.id) # "Greater"
      [] head = "Name" -> StrCmp(x.name, y.name) # "Greater"
      [] head = "Image" -> StrCmp(x.image, y.image) # "Greater"
      [] head = "Rx" -> x.rx <= y.rx
      [] head = "Tx" -> x.tx <= y.tx
      [] head = "Memory" -> LatestMem(x) <= LatestMem(y)

FieldHeaders == {"Status", "Id", "Name", "Image", "Rx", "Tx", "Memory"}

\* C29: after a sort, with sort state None the items are in non-decreasing
\* order of creation time; with (h, Asc), h one of Status, Id, Name, Image,
\* Rx, Tx, Memory, every adjacent pair is in non-decreasing order of the
\* field h names, with (h, Desc) in non-increasing order; the sort only
\* permutes the items.
C29_SortOrders ==
    /\ LET its == SortedUnder(None)
       IN  /\ Permutation(its, items)
           /\ \A k \in 1..(Len(its) - 1) : its[k].created <= its[k + 1].created
    /\ \A h \in FieldHeaders :
          /\ LET its == SortedUnder(Some(<<h, "Asc">>))
             IN  /\ Permutation(its, items)
                 /\ \A k \in 1..(Len(its) - 1) : FieldLeq(h, its[k], its[k + 1])
          /\ LET its == SortedUnder(Some(<<h, "Desc">>))
             IN  /\ Permutation(its, items)
                 /\ \A k \in 1..(Len(its) - 1) : FieldLeq(h, its[k + 1], its[k])
    /\ \A h \in Headers, d \in Directions :
          Permutation(SortedUnder(Some(<<h, d>>)), items)

\* three items in descending memory order, one of them without a memory
\* sample, which every field sort and the creation sort rearrange
C29_Witness ==
    /\ Len(items) = 3
    /\ sorted_by = Some(<<"Memory", "Desc">>)
    /\ \E k \in 1..3 : items[k].mem_stats = <<>>
    /\ \E k \in 1..3 : items[k].mem_stats = <<5>>
    /\ \E k \in 1..3 : items[k].mem_stats = <<0>>
    /\ SortedUnder(None) # items
    /\ \A h \in FieldHeaders : SortedUnder(Some(<<h, "Asc">>)) # items

\* the history of the item the header names
HistoryOf(head, item) == IF head = "Cpu" THEN item.cpu_stats ELSE item.mem_stats

\* the history is empty, or its most recent sample is 0
LatestIsZero(q) == q = <<>> \/ q[Len(q)] = 0

\* C30: under a sort by Cpu or Memory an item with an empty history is
\* ordered as if its most recent sample were 0: it compares equal to an item
\* whose latest sample is 0, so the two keep their previous relative order.
C30_EmptyHistoryIsZero ==
    \A h \in {"Cpu", "Memory"}, d \in Directions :
        LET its == SortedUnder(Some(<<h, d>>))
        IN  \A j, k \in 1..Len(items) :
               ( /\ j < k
                 /\ LatestIsZero(HistoryOf(h, items[j]))
                 /\ LatestIsZero(HistoryOf(h, items[k])) )
               => get_container_by_id(its, items[j].id)
                     < get_container_by_id(its, items[k].id)

\* C31: while a sort is active, the selected ContainerId after update_stats
\* is the one selected before it, also when the re-sort moves items.
C31_StatsKeepSelectedId ==
    \A id \in SortIds, st \in SortStatPool :
        sorted_by # None =>
            get_selected_container_id(StatsOf(Reg, id, st))
                = get_selected_container_id(Reg)

\* the log selection is on the last stored line, or unset on an empty store
AtLastLine(logs) ==
    IF logs.items = <<>> THEN logs.selected = None
    ELSE logs.selected = Some(Len(logs.items) - 1)

\* C32: after update_logs on an item, a log selection that was None or on
\* the last line before the call is on the last line of the log store, and
\* a selection on any other line is unchanged.
C32_LogAutoScroll ==
    \A b \in LogBatches :
        LET before == ItemOf(items, <<"a">>).logs
            after == ItemOf(update_log_by_id(Reg, b, <<"a">>, args).items, <<"a">>).logs
        IN  IF before.selected = None
               \/ (before.items # <<>> /\ AtLastLine(before))
            THEN AtLastLine(after)
            ELSE after.selected = before.selected

\* two lines stored and the first one selected, so that a batch adds a
\* third line and leaves the selection where it is
C32_Witness ==
    /\ Len(ItemOf(items, <<"a">>).logs.items) = 2
    /\ ItemOf(items, <<"a">>).logs.selected = Some(0)
    /\ \E b \in LogBatches :
          LET after == ItemOf(update_log_by_id(Reg, b, <<"a">>, args).items, <<"a">>).logs
          IN  Len(after.items) = 3 /\ after.selected = Some(0)

\* C37: for every item, the log selection is None or a valid index into the
\* item's stored log lines; it is None while the log store is empty.
C37_LogSelectionValid ==
    \A k \in 1..Len(items) :
        LET logs == items[k].logs
        IN  \/ logs.selected = None
            \/ /\ logs.items # <<>>
               /\ Unwrap(logs.selected) \in 0..(Len(logs.items) - 1)

\* the delete dialog takes the keys: DeleteConfirm is set, Error and Help
\* are not
DeleteMode ==
    /\ "DeleteConfirm" \in gui_status
    /\ "Error" \notin gui_status
    /\ "Help" \notin gui_status

\* C33: while DeleteConfirm is set and neither Error nor Help is, a key other
\* than yes, no and the quit combination has no effect; yes sends a delete
\* command for the pending ContainerId, and no clears the pending id and the
\* DeleteConfirm flag without sending anything.
C33_DeleteConfirmKeys ==
    DeleteMode =>
        \A key \in AllKeys \ QuitKeys, ok \in BOOLEAN :
            LET r == button_press(World, key, ok)
            IN  CASE key.code \in {"y", "Y"} ->
                        /\ IsSome(delete_container)
                        /\ r = [World EXCEPT !.docker_tx =
                                   Append(@, <<"Delete", Unwrap(delete_container)>>)]
                  [] key.code \in {"n", "N"} ->
                        /\ r.gui.delete_container = None
                        /\ "DeleteConfirm" \notin r.gui.status
                        /\ r.docker_tx = docker_tx
                        /\ r.reg = Reg
                        /\ r.error = error
                        /\ r.is_running = is_running
                  [] OTHER -> r = World

\* the delete dialog is open for a container of the registry while the
\* program runs, and a message is already waiting in the channel
C33_Witness ==
    /\ DeleteMode
    /\ is_running
    /\ IsSome(delete_container)
    /\ Len(items) = 2
    /\ docker_tx # <<>>

(***************************************************************************)
(* SpecCpu: three containers that each get one cpu sample close to the     *)
(* others, sorted by the Cpu header                                        *)
(***************************************************************************)
\* largest cpu sample, in CpuUnits of 0.005 %: 0.02 %
MaxCpuSample == 4

CpuSamples == 0..MaxCpuSample

CpuIds == {<<"a">>, <<"b">>, <<"c">>}

InitCpu ==
    /\ SetRegInit(update_containers(ContainerData_new, SortSnapshot))
    /\ args = [color |-> FALSE, raw |-> FALSE, timestamp |-> TRUE]
    /\ stat_calls = <<>>
    /\ log_calls = <<>>
    /\ GuiInit

\* update_stats with the first cpu sample of a container
CpuUpdateStats ==
    /\ \E id \in CpuIds, c \in CpuSamples :
          /\ ItemOf(items, id).cpu_stats = <<>>
          /\ SetReg(update_stats(Reg, id, Some(c), None, 9, 0, 0))
    /\ UNCHANGED outside

CpuSetSort == SetSort({"Cpu"})

NextCpu ==
    \/ CpuUpdateStats
    \/ CpuSetSort

SpecCpu == InitCpu /\ [][NextCpu]_vars

\* the latest cpu samples the items hold
LatestCpu == {items[k].cpu_stats[Len(items[k].cpu_stats)] :
                 k \in {j \in 1..Len(items) : items[j].cpu_stats # <<>>}}

\* a is Less than b, b is Less than c, and a is Equal to c
LessLessEqual(a, b, c) ==
    /\ CpuStats_cmp(a, b) = "Less"
    /\ CpuStats_cmp(b, c) = "Less"
    /\ CpuStats_cmp(a, c) = "Equal"

\* a is Equal to b, b is Equal to c, and a is Less than c
EqualEqualLess(a, b, c) ==
    /\ CpuStats_cmp(a, b) = "Equal"
    /\ CpuStats_cmp(b, c) = "Equal"
    /\ CpuStats_cmp(a, c) = "Less"

C35_AbsentSampleKeepsHistory ==
    LET before == ItemOf(items, <<"a">>)
        no_cpu == ItemOf(update_stats(Reg, <<"a">>, None, Some(1), 9, 1, 1).items, <<"a">>)
        no_mem == ItemOf(update_stats(Reg, <<"a">>, Some(1), None, 9, 1, 1).items, <<"a">>)
    IN  /\ no_cpu.cpu_stats = before.cpu_stats
        /\ no_mem.mem_stats = before.mem_stats

(***************************************************************************)
(* SpecError: the error box.  Deletes are confirmed and fail in the         *)
(* orchestrator while the user dismisses an earlier error; the channel      *)
(* may hold two commands.                                                   *)
(***************************************************************************)
\* most DockerMessages waiting while the user still types
MaxErrQueued == 2

\* the keys of a run: yes, the dismiss key, the quit key
ErrorEvents ==
    {<<"ButtonPress", [code |-> c, ctrl |-> FALSE]>> : c \in {"y", "c", "q"}}

ErrorRoom == Len(input_tx) < MaxInput /\ Len(docker_tx) < MaxErrQueued

\* the steps of start for the three keys
ErrorInputSteps ==
    \/ QuitSteps
    \/ InputDismissApp
    \/ InputDismissGui
    \/ InputConfirmRead
    \/ InputConfirmSend

NextError ==
    \/ RenderSteps
    \/ RenderPoll(ErrorEvents, ErrorRoom)
    \/ RenderTick(ErrorRoom)
    \/ ErrorInputSteps
    \/ OrchReconcile
    \/ OrchConfirmDelete
    \/ OrchRecv

SpecError == InitTasks /\ [][NextError]_vars

\* C36: for errors other than the startup connect error, in every state
\* where no activity is between its two writes, the Error status is set
\* exactly when AppData.error holds an error.
C36_ErrorFlagMatchesError ==
    input_pc # "dismiss_gui" => (IsSome(error) <=> "Error" \in gui_status)

\* the delete request the frame in progress has read names no container of
\* the registry
FrameSeesStaleDelete ==
    /\ IsSome(render_local.delete_confirm)
    /\ get_container_by_id(items, Unwrap(render_local.delete_confirm)) = 0

\* C38: a frame reads the pending-delete ContainerId, goes on to the delete
\* dialog whenever it has read one, and when that id names no container of
\* the registry it clears the pending id and the DeleteConfirm status before
\* it ends.
C38_FrameClearsStaleDelete ==
    [][ /\ (render_pc = "draw_gui" /\ render_pc' = "draw_content")
            => render_local'.delete_confirm = delete_container
        /\ ( /\ render_pc = "draw_content"
             /\ render_pc' # "draw_content"
             /\ IsSome(render_local.delete_confirm) )
            => render_pc' = "delete_app"
        /\ (render_pc = "delete_gui" /\ render_pc' = "poll" /\ FrameSeesStaleDelete)
            => /\ delete_container' = None
               /\ "DeleteConfirm" \notin gui_status' ]_vars

\* the frame stands before the delete dialog with the pending id it has
\* read, the dialog is still open for that id, and a reconcile has removed
\* the container
C38_Witness ==
    /\ render_pc = "delete_gui"
    /\ FrameSeesStaleDelete
    /\ delete_container = render_local.delete_confirm
    /\ "DeleteConfirm" \in gui_status
    /\ items = <<>>

\* the ways to say yes to the delete dialog: the key y or Y, or a left click
\* on the Yes button
YesInputs ==
    {<<"ButtonPress", [code |-> c, ctrl |-> FALSE]>> : c \in {"y", "Y"}}
    \cup {<<"MouseEvent", [kind |-> "DownLeft", hit |-> Some("Yes")]>>}

\* InputHandler::start handling one of the yes inputs
HandleYes(w, input) ==
    IF input[1] = "ButtonPress"
    THEN button_press(w, input[2], TRUE)
    ELSE mouse_event_arm(w, input[2])

\* C39: for one pending delete confirmation at most one delete command for
\* that container is sent, however many times yes is pressed or the Yes
\* button is clicked before the confirmation closes: two yes inputs handled
\* one after the other while the dialog stays open add at most one Delete.
C39_OneDeletePerConfirmation ==
    (DeleteMode /\ IsSome(delete_container)) =>
        \A first \in YesInputs, second \in YesInputs :
            LET once == HandleYes(World, first)
                twice == HandleYes(once, second)
                cmd == <<"Delete", Unwrap(delete_container)>>
            IN  (/\ once.gui.delete_container = delete_container
                 /\ twice.gui.delete_container = delete_container)
                    => Count(twice.docker_tx, cmd) <= Count(docker_tx, cmd) + 1

\* C40: after any sequence of dispatcher, orchestrator and render steps the
\* status set contains DeleteConfirm exactly when a pending-delete
\* ContainerId is stored.
C40_DeleteConfirmMatchesId ==
    "DeleteConfirm" \in gui_status <=> IsSome(delete_container)

\* the dialog is open with its id stored, the dispatcher has sent the delete
\* command for it, and a frame that read the id is on its way to the dialog
C40_Witness ==
    /\ "DeleteConfirm" \in gui_status
    /\ IsSome(delete_container)
    /\ Count(docker_tx, <<"Delete", Unwrap(delete_container)>>) = 1
    /\ render_pc = "delete_app"

====
